---- MODULE Spec2Model ----
(***************************************************************************)
(* Model of the content-generation pipeline of dghr-blog-api:              *)
(*   services/gemini.py   fetch_url_content, get_reference_content_with_   *)
(*                        debug, get_persona_with_debug,                   *)
(*                        analyze_images_with_gemini,                      *)
(*                        generate_blog_with_gemini (with its repair pass) *)
(*   services/database.py get_project, get_photos, update_project_status,  *)
(*                        save_content                                     *)
(*   routers/generate.py  generate_blog_content (blocking mode) and        *)
(*                        generate_blog_content_stream.event_generator     *)
(*                        (streaming mode)                                 *)
(*                                                                         *)
(* Text (HTML, model responses) is a sequence of lexemes: atomic pieces of *)
(* text, fine enough that the regular expression, the substring tests and  *)
(* the splits of the code act on whole lexemes.  A Python dict is a        *)
(* function whose DOMAIN is the dict's key set.                            *)
(***************************************************************************)
EXTENDS Integers, Sequences, FiniteSets, TLC

\* ------------------------------------------------------------------------
\* Bounds of the model
\* ------------------------------------------------------------------------
MaxImages == 2
MaxFrags == 3
MaxRefs == 6

\* ------------------------------------------------------------------------
\* Generic helpers
\* ------------------------------------------------------------------------
Range(s) == {s[i] : i \in 1..Len(s)}

SeqsUpTo(S, n) == UNION {[1..k -> S] : k \in 0..n}

RECURSIVE Flatten(_)
Flatten(ss) == IF ss = <<>> THEN <<>> ELSE Head(ss) \o Flatten(Tail(ss))

\* Python's sep.join(parts), parts a sequence of lexeme sequences
RECURSIVE Join(_, _)
Join(sep, parts) ==
    IF parts = <<>> THEN <<>>
    ELSE IF Len(parts) = 1 THEN parts[1]
    ELSE parts[1] \o sep \o Join(sep, Tail(parts))

\* Python's dict.get(key, default)
DictGet(d, key, default) == IF key \in DOMAIN d THEN d[key] ELSE default

\* dict d with d[key] = value set (the key added when it is missing)
DictSet(d, key, value) ==
    [k \in DOMAIN d \cup {key} |-> IF k = key THEN value ELSE d[k]]

\* ------------------------------------------------------------------------
\* HTML lexemes
\* ------------------------------------------------------------------------
LT_IMG == "<img"
SP == " "
SRC_EQ == "src="
DQ == "dquote"                      \* the character "
GT == ">"
NL == "newline"                     \* the character \n
ALT_EQ == " alt="
ALT_TEXT == "sajin"                 \* the alt text of an inserted image
SRC_SQ == "src='"
SQ == "'"
ART_OPEN == "<article>"
ART_CLOSE == "</article>"
FIG_OPEN == "<figure>"
FIG_EMPTY_CLOSE == "<figcaption></figcaption></figure>"
PARA == "<p>text</p>"
BROKEN == "x"                       \* text after an unterminated src="

\* a URL no photo of the project has
ForeignUrl == "u9"

\* lexemes holding the character > and lexemes holding the character "
HasGt == {GT, ART_OPEN, ART_CLOSE, FIG_OPEN, FIG_EMPTY_CLOSE, PARA}
HasDq == {DQ}


\* ------------------------------------------------------------------------
\* re.findall(r'<img[^>]+src="([^"]+)"', content_html)      gemini.py:398
\* ------------------------------------------------------------------------
\* the last index r >= i with no > in h[i+1..r]: how far [^>]+ can run
RECURSIVE NoGtRunEnd(_, _)
NoGtRunEnd(h, i) ==
    IF i + 1 <= Len(h) /\ h[i + 1] \notin HasGt THEN NoGtRunEnd(h, i + 1) ELSE i

\* the first index k >= from with a " in h[k], or 0
RECURSIVE FirstDq(_, _)
FirstDq(h, from) ==
    IF from > Len(h) THEN 0
    ELSE IF h[from] \in HasDq THEN from
    ELSE FirstDq(h, from + 1)

\* the places j where src=" can start in a match that starts with <img at i:
\* [^>]+ takes h[i+1..j-1] (not empty), src=" is h[j], h[j+1], the group
\* [^"]+ takes h[j+2..k-1] (not empty) and the closing " is h[k]
SrcPlaces(h, i) ==
    {j \in (i + 2)..(NoGtRunEnd(h, i) - 1) :
        /\ h[j] = SRC_EQ
        /\ h[j + 1] = DQ
        /\ FirstDq(h, j + 2) >= j + 3}

Max(S) == CHOOSE x \in S : \A y \in S : y <= x

\* the groups of the non-overlapping matches found from index i on, in order;
\* [^>]+ is greedy, so the match at i uses the last place of src="
RECURSIVE FindAllFrom(_, _)
FindAllFrom(h, i) ==
    IF i > Len(h) THEN <<>>
    ELSE IF h[i] = LT_IMG /\ SrcPlaces(h, i) # {}
    THEN LET j == Max(SrcPlaces(h, i))
             k == FirstDq(h, j + 2)
         IN  <<SubSeq(h, j + 2, k - 1)>> \o FindAllFrom(h, k + 1)
    ELSE FindAllFrom(h, i + 1)

FindAllImgSrc(h) == FindAllFrom(h, 1)

\* ------------------------------------------------------------------------
\* The repair pass of generate_blog_with_gemini             gemini.py:397-412
\* ------------------------------------------------------------------------
\* f'<figure><img src="{url}" alt="사진"><figcaption></figcaption></figure>'
FigureBlock(url) ==
    <<FIG_OPEN, LT_IMG, SP, SRC_EQ, DQ, url, DQ, ALT_EQ, DQ, ALT_TEXT, DQ, GT,
      FIG_EMPTY_CLOSE>>

\* [url for url in image_urls if url not in included_urls]
RECURSIVE MissingUrls(_, _)
MissingUrls(image_urls, included_urls) ==
    IF image_urls = <<>> THEN <<>>
    ELSE (IF <<Head(image_urls)>> \in included_urls THEN <<>>
          ELSE <<Head(image_urls)>>)
         \o MissingUrls(Tail(image_urls), included_urls)

\* "\n".join(FigureBlock(url) for url in missing_urls)
MissingHtml(missing_urls) ==
    Join(<<NL>>, [i \in 1..Len(missing_urls) |-> FigureBlock(missing_urls[i])])

\* content_html.replace("</article>", new): every occurrence is replaced
RECURSIVE ReplaceArticleClose(_, _)
ReplaceArticleClose(h, new) ==
    IF h = <<>> THEN <<>>
    ELSE (IF Head(h) = ART_CLOSE THEN new ELSE <<Head(h)>>)
         \o ReplaceArticleClose(Tail(h), new)

RepairPass(content_html, image_urls) ==
    LET included_urls == Range(FindAllImgSrc(content_html))
        missing_urls == MissingUrls(image_urls, included_urls)
        missing_html == MissingHtml(missing_urls)
    IN  IF missing_urls = <<>> THEN content_html
        ELSE IF ART_CLOSE \in Range(content_html)
        THEN ReplaceArticleClose(content_html,
                                 <<NL>> \o missing_html \o <<NL, ART_CLOSE>>)
        ELSE content_html \o <<NL>> \o missing_html

\* ------------------------------------------------------------------------
\* Plain text: a sequence of lexemes, each with its number of characters
\* ------------------------------------------------------------------------
WORD == "w"
ELLIPSIS == "..."
SCRIPT_OPEN == "<script>"
SCRIPT_CLOSE == "</script>"
STYLE_OPEN == "<style>"
STYLE_CLOSE == "</style>"
NOSCRIPT_OPEN == "<noscript>"
NOSCRIPT_CLOSE == "</noscript>"
CMT_OPEN == "<!--"
CMT_CLOSE == "-->"
TAG == "<div>"

\* whole tags, matched by <[^>]+>
TagLexemes ==
    {SCRIPT_OPEN, SCRIPT_CLOSE, STYLE_OPEN, STYLE_CLOSE, NOSCRIPT_OPEN,
     NOSCRIPT_CLOSE, TAG}

CharLen(lexeme) ==
    IF lexeme = CMT_OPEN THEN 4
    ELSE IF lexeme \in {CMT_CLOSE, ELLIPSIS} THEN 3
    ELSE 1

RECURSIVE TextLen(_)
TextLen(text) == IF text = <<>> THEN 0 ELSE CharLen(Head(text)) + TextLen(Tail(text))

\* Python's text[:n]
RECURSIVE Slice(_, _)
Slice(text, n) ==
    IF text = <<>> \/ CharLen(Head(text)) > n THEN <<>>
    ELSE <<Head(text)>> \o Slice(Tail(text), n - CharLen(Head(text)))

\* Python's text.strip()
RECURSIVE LStrip(_)
LStrip(text) ==
    IF text # <<>> /\ Head(text) \in {SP, NL} THEN LStrip(Tail(text)) ELSE text

RECURSIVE RStrip(_)
RStrip(text) ==
    IF text # <<>> /\ text[Len(text)] \in {SP, NL}
    THEN RStrip(SubSeq(text, 1, Len(text) - 1))
    ELSE text

Strip(text) == RStrip(LStrip(text))

\* the first index k >= from with text[k] in S, or 0
RECURSIVE FirstIn(_, _, _)
FirstIn(text, from, S) ==
    IF from > Len(text) THEN 0
    ELSE IF text[from] \in S THEN from
    ELSE FirstIn(text, from + 1, S)

\* ------------------------------------------------------------------------
\* fetch_url_content                                         gemini.py:17-53
\* ------------------------------------------------------------------------
MAX_LENGTH_DEFAULT == 5000

\* re.sub(r'<open[^>]*>.*?</open>', '', content): each opening tag is removed
\* with everything up to the first closing tag after it; an opening tag that
\* is never closed stays
RECURSIVE RemovePairs(_, _, _)
RemovePairs(text, open, close) ==
    IF text = <<>> THEN <<>>
    ELSE IF Head(text) = open /\ FirstIn(text, 2, {close}) # 0
    THEN RemovePairs(SubSeq(text, FirstIn(text, 2, {close}) + 1, Len(text)),
                     open, close)
    ELSE <<Head(text)>> \o RemovePairs(Tail(text), open, close)

\* re.sub(r'<[^>]+>', ' ', content): a whole tag becomes a space; a <!-- left
\* unclosed runs on to the first > after it
RECURSIVE RemoveTags(_)
RemoveTags(text) ==
    IF text = <<>> THEN <<>>
    ELSE IF Head(text) \in TagLexemes THEN <<SP>> \o RemoveTags(Tail(text))
    ELSE IF Head(text) = CMT_OPEN
            /\ FirstIn(text, 2, TagLexemes \cup {CMT_CLOSE}) # 0
    THEN <<SP>> \o RemoveTags(SubSeq(text,
                      FirstIn(text, 2, TagLexemes \cup {CMT_CLOSE}) + 1,
                      Len(text)))
    ELSE <<Head(text)>> \o RemoveTags(Tail(text))

\* re.sub(r'\s+', ' ', content)
RECURSIVE CollapseSpace(_)
CollapseSpace(text) ==
    IF text = <<>> THEN <<>>
    ELSE IF Head(text) \in {SP, NL}
    THEN <<SP>> \o CollapseSpace(LStrip(text))
    ELSE <<Head(text)>> \o CollapseSpace(Tail(text))

Sanitize(body) ==
    LET c1 == RemovePairs(body, SCRIPT_OPEN, SCRIPT_CLOSE)
        c2 == RemovePairs(c1, STYLE_OPEN, STYLE_CLOSE)
        c3 == RemovePairs(c2, NOSCRIPT_OPEN, NOSCRIPT_CLOSE)
        c4 == RemovePairs(c3, CMT_OPEN, CMT_CLOSE)
    IN  Strip(CollapseSpace(RemoveTags(c4)))

\* the status code alone
HttpErrorBare(status_code) == ToString(status_code)

\* f"HTTP {resp.status_code}"
HttpError(status_code) == "HTTP " \o ToString(status_code)

\* fetch_url_content counting a page without text as a failed fetch
fetch_url_content_needs_text(url, max_length, resp) ==
    LET result == [url |-> url, content |-> <<>>, success |-> FALSE, error |-> ""]
    IN  IF resp.exc # "" THEN [result EXCEPT !.error = resp.exc]
        ELSE IF resp.status_code # 200
        THEN [result EXCEPT !.error = HttpError(resp.status_code)]
        ELSE [result EXCEPT !.content = Slice(Sanitize(resp.body), max_length),
                            !.success = Sanitize(resp.body) # <<>>]

\* resp is what httpx.get does for this URL: [exc, status_code, body], exc the
\* message of the exception it raises or "" when it returns
fetch_url_content(url, max_length, resp) ==
    LET result == [url |-> url, content |-> <<>>, success |-> FALSE, error |-> ""]
    IN  IF resp.exc # "" THEN [result EXCEPT !.error = resp.exc]
        ELSE IF resp.status_code # 200
        THEN [result EXCEPT !.error = HttpError(resp.status_code)]
        ELSE [result EXCEPT !.content = Slice(Sanitize(resp.body), max_length),
                            !.success = TRUE]

\* ------------------------------------------------------------------------
\* External calls: the log of what one invocation did outside the process
\* ------------------------------------------------------------------------
Call(op, arg) == [op |-> op, arg |-> arg]

\* a fetch that asks again after an exception
FetchRequestsRetrying(url, resp) ==
    IF resp.exc # "" THEN <<Call("httpx.get", url), Call("httpx.get", url)>>
    ELSE <<Call("httpx.get", url)>>

\* the HTTP requests of one fetch_url_content(url): the single httpx.get of
\* gemini.py:30, whatever it does
FetchRequests(url, resp) == <<Call("httpx.get", url)>>

\* ------------------------------------------------------------------------
\* get_reference_content_with_debug                         gemini.py:56-105
\* ------------------------------------------------------------------------
MAX_REFERENCES == 5
REF_FETCH_LENGTH == 3000
REF_BLOCK_LENGTH == 2000
PREVIEW_LENGTH == 200

REF_LABEL == "[ref:"
REF_LABEL_END == "]"
REF_SEPARATOR == <<NL, NL, "---", NL, NL>>

\* a reference source is [url, title, resp]: the row of blog_reference_urls
\* and what httpx.get does for its URL
RefDetail(url_data) ==
    LET fetch_result ==
            fetch_url_content(url_data.url, REF_FETCH_LENGTH, url_data.resp)
    IN  [url |-> url_data.url,
         title |-> url_data.title,
         success |-> fetch_result.success,
         content_length |-> TextLen(fetch_result.content),
         error |-> fetch_result.error,
         preview |-> IF fetch_result.content # <<>>
                     THEN Slice(fetch_result.content, PREVIEW_LENGTH)
                          \o <<ELLIPSIS>>
                     ELSE <<>>]

\* f"[참고글: {title or url}]\n{fetch_result['content'][:2000]}"
RefText(url_data) ==
    LET fetch_result ==
            fetch_url_content(url_data.url, REF_FETCH_LENGTH, url_data.resp)
    IN  <<REF_LABEL,
          IF url_data.title # "" THEN url_data.title ELSE url_data.url,
          REF_LABEL_END, NL>>
        \o Slice(fetch_result.content, REF_BLOCK_LENGTH)

\* blocks only for the sources whose fetch gave some text
RECURSIVE ReferenceTextsWithText(_)
ReferenceTextsWithText(examined) ==
    IF examined = <<>> THEN <<>>
    ELSE (IF RefDetail(Head(examined)).content_length > 0
          THEN <<RefText(Head(examined))>> ELSE <<>>)
         \o ReferenceTextsWithText(Tail(examined))

\* the blocks of the sources whose fetch succeeded, in source order
RECURSIVE ReferenceTexts(_)
ReferenceTexts(examined) ==
    IF examined = <<>> THEN <<>>
    ELSE (IF RefDetail(Head(examined)).success
          THEN <<RefText(Head(examined))>> ELSE <<>>)
         \o ReferenceTexts(Tail(examined))

\* every source, however many there are
ExaminedAll(urls) == urls

\* urls[:5]
Examined(urls) ==
    SubSeq(urls, 1, IF Len(urls) < MAX_REFERENCES THEN Len(urls)
                    ELSE MAX_REFERENCES)

\* get_reference_content_with_debug counting as found only the sources it
\* examines (len(urls[:5]) in place of len(urls) at gemini.py:75)
get_reference_content_found_capped(urls) ==
    LET examined == Examined(urls)
        reference_texts == ReferenceTexts(examined)
    IN  [urls_found |-> Len(examined),
         urls_fetched |-> Len(reference_texts),
         url_details |-> [i \in 1..Len(examined) |-> RefDetail(examined[i])],
         combined_content |-> Join(REF_SEPARATOR, reference_texts)]

\* urls is what get_reference_urls returns (the active sources in created_at
\* order; the empty list when the read raises, database.py:258-265)
get_reference_content_with_debug(urls) ==
    LET examined == Examined(urls)
        reference_texts == ReferenceTexts(examined)
    IN  [urls_found |-> Len(urls),
         urls_fetched |-> Len(reference_texts),
         url_details |-> [i \in 1..Len(examined) |-> RefDetail(examined[i])],
         combined_content |-> Join(REF_SEPARATOR, reference_texts)]

\* the HTTP requests get_reference_content_with_debug makes, in order
ReferenceCalls(urls) ==
    Flatten([i \in 1..Len(Examined(urls)) |->
                FetchRequests(Examined(urls)[i].url, Examined(urls)[i].resp)])

\* ------------------------------------------------------------------------
\* get_persona_with_debug                                  gemini.py:108-131
\* ------------------------------------------------------------------------
\* get_persona_with_debug taking any non-empty string for a persona
get_persona_unstripped(persona) ==
    IF persona.type = "str" /\ persona.text # <<>>
    THEN [has_persona |-> TRUE,
          persona_text |-> persona.text,
          persona_length |-> TextLen(persona.text)]
    ELSE [has_persona |-> FALSE, persona_text |-> <<>>, persona_length |-> 0]

\* persona is what get_settings(user_id, "blog_persona", None) returns:
\* [type, text], type "none" for None (also when the read raises,
\* database.py:230-239), "str" for a string, "other" for any other JSON value
get_persona_with_debug(persona) ==
    IF persona.type = "str" /\ persona.text # <<>>
       /\ TextLen(Strip(persona.text)) > 0
    THEN [has_persona |-> TRUE,
          persona_text |-> Strip(persona.text),
          persona_length |-> TextLen(Strip(persona.text))]
    ELSE [has_persona |-> FALSE, persona_text |-> <<>>, persona_length |-> 0]

\* ------------------------------------------------------------------------
\* The model's response and its parsing        gemini.py:189-198, 386-394
\* ------------------------------------------------------------------------
FENCE == "[fence]"                 \* three backquotes
JSON_TAG == "json"                  \* the word json right after a fence
JSON_DOC == "{json}"                \* the JSON text of the response's doc
GARBAGE == "no json"

MODEL_NAME == "gemini-3.1-pro-preview"

\* the first index i >= from of "```json" in text, or 0
RECURSIVE FirstFenceJson(_, _)
FirstFenceJson(text, from) ==
    IF from + 1 > Len(text) THEN 0
    ELSE IF text[from] = FENCE /\ text[from + 1] = JSON_TAG THEN from
    ELSE FirstFenceJson(text, from + 1)

\* text[from..] up to the first fence in it (the end when there is none)
UpToFence(text, from) ==
    LET k == FirstIn(text, from, {FENCE})
    IN  SubSeq(text, from, IF k = 0 THEN Len(text) ELSE k - 1)

\* if "```json" in text: text.split("```json")[1].split("```")[0]
\* elif "```" in text:   text.split("```")[1].split("```")[0]
StripFence(text) ==
    IF FirstFenceJson(text, 1) # 0
    THEN UpToFence(text, FirstFenceJson(text, 1) + 2)
    ELSE IF FirstIn(text, 1, {FENCE}) # 0
    THEN UpToFence(text, FirstIn(text, 1, {FENCE}) + 1)
    ELSE text

\* A JSON text one of whose strings holds a fenced passage, as in
\* {"title": "[fence]{}[fence]"}: J_HEAD is the text up to the string's first
\* fence, EMPTY_OBJECT the two characters {} between the fences, J_TAIL the
\* text after the second fence.
J_HEAD == "{json up to a fence in a string"
EMPTY_OBJECT == "{}"
J_TAIL == "json after the fence}"
JSON_WITH_FENCES == <<J_HEAD, FENCE, EMPTY_OBJECT, FENCE, J_TAIL>>

\* the JSON texts of a response's doc
JsonTexts == {<<JSON_DOC>>, JSON_WITH_FENCES}

\* json.loads(text.strip()) succeeds on a whole JSON text and on {}
JsonDecodes(text) == Strip(text) \in JsonTexts \cup {<<EMPTY_OBJECT>>}

\* the value json.loads(text.strip()) gives for a text that decodes: the
\* empty dict for {}, the response's doc for the whole JSON text
JsonLoads(text, doc) ==
    IF Strip(text) = <<EMPTY_OBJECT>>
    THEN [type |-> "object", value |-> <<>>]
    ELSE doc

\* response is what model.generate_content does: [exc, text, doc]; exc is the
\* message of the exception it raises ("" when it returns), text the
\* response text and doc = [type, value] the JSON value that the JSON text in
\* the response stands for (type "object" with value a dict, or "array").
\* ParseResponse gives [ok, error, doc].
ParseResponse(response) ==
    IF response.exc # ""
    THEN [ok |-> FALSE, error |-> response.exc, doc |-> response.doc]
    ELSE IF ~JsonDecodes(StripFence(response.text))
    THEN [ok |-> FALSE, error |-> "JSONDecodeError", doc |-> response.doc]
    ELSE [ok |-> TRUE, error |-> "",
          doc |-> JsonLoads(StripFence(response.text), response.doc)]

\* ------------------------------------------------------------------------
\* analyze_images_with_gemini                              gemini.py:134-205
\* ------------------------------------------------------------------------
ERR_NO_KEY == "GOOGLE_API_KEY not set"
ERR_NO_IMAGES == "image download failed"
ERR_TYPE == "TypeError"

\* ImageParts taking every response that is not an exception, whatever its
\* status (gemini.py:160 without the test of line 161)
RECURSIVE ImagePartsAnyStatus(_, _)
ImagePartsAnyStatus(image_urls, http) ==
    IF image_urls = <<>> THEN <<>>
    ELSE (IF http[Head(image_urls)].exc = ""
          THEN <<Head(image_urls)>> ELSE <<>>)
         \o ImagePartsAnyStatus(Tail(image_urls), http)

\* ImageParts giving up at the first download that fails (a break in place of
\* the skip of gemini.py:161-167)
RECURSIVE ImagePartsStopAtFailure(_, _)
ImagePartsStopAtFailure(image_urls, http) ==
    IF image_urls = <<>> THEN <<>>
    ELSE IF http[Head(image_urls)].exc = ""
            /\ http[Head(image_urls)].status_code = 200
    THEN <<Head(image_urls)>> \o ImagePartsStopAtFailure(Tail(image_urls), http)
    ELSE <<>>

\* the URLs whose download returned status 200, in input order
RECURSIVE ImageParts(_, _)
ImageParts(image_urls, http) ==
    IF image_urls = <<>> THEN <<>>
    ELSE (IF http[Head(image_urls)].exc = ""
             /\ http[Head(image_urls)].status_code = 200
          THEN <<Head(image_urls)>> ELSE <<>>)
         \o ImageParts(Tail(image_urls), http)

\* world = [api_key, http, response]; gives [ret, net]: the returned dict and
\* the external calls made, in order
analyze_images_with_gemini(image_urls, project_name, world) ==
    LET image_parts == ImageParts(image_urls, world.http)
        downloads == [i \in 1..Len(image_urls) |->
                         Call("httpx.get", <<image_urls[i]>>)]
        model_call == Call("generate_content", <<"prompt">> \o image_parts)
        parsed == ParseResponse(world.response)
    IN  IF ~world.api_key
        THEN [ret |-> [error |-> ERR_NO_KEY], net |-> <<>>]
        ELSE IF image_parts = <<>>
        THEN [ret |-> [error |-> ERR_NO_IMAGES], net |-> downloads]
        ELSE IF ~parsed.ok
        THEN [ret |-> [error |-> parsed.error],
              net |-> downloads \o <<model_call>>]
        ELSE IF parsed.doc.type # "object"
        THEN [ret |-> [error |-> ERR_TYPE],
              net |-> downloads \o <<model_call>>]
        ELSE [ret |-> DictSet(parsed.doc.value, "debug",
                              [images_processed |-> Len(image_parts),
                               model |-> MODEL_NAME]),
              net |-> downloads \o <<model_call>>]

\* ------------------------------------------------------------------------
\* generate_blog_with_gemini                               gemini.py:208-419
\* ------------------------------------------------------------------------
REFERENCE_PREVIEW_LENGTH == 300
PERSONA_HEADER == "[persona]"
PERSONA_FOOTER == "[follow the persona]"
REFERENCE_HEADER == "[reference posts]"
REFERENCE_FOOTER == "[learn from the references]"
ERR_ATTRIBUTE == "AttributeError"
NOW == "now"                        \* datetime.now(KST).isoformat()

\* debug_info as initialised at gemini.py:246-259
DebugInit(user_id) ==
    [timestamp |-> NOW,
     user_id |-> user_id,
     persona |-> <<>>,
     reference_urls |-> <<>>,
     prompt_sections |-> [has_persona |-> FALSE,
                          has_reference |-> FALSE,
                          persona_preview |-> <<>>,
                          reference_preview |-> <<>>],
     full_prompt_length |-> 0,
     model |-> MODEL_NAME]

\* keywords[0] if keywords else project_name
MainKeyword(keywords, project_name) ==
    IF keywords # <<>> THEN keywords[1] ELSE project_name

\* Step 2 of the function: the persona section of the prompt
PersonaSection(user_id, persona) ==
    IF user_id # "" /\ get_persona_with_debug(persona).has_persona
    THEN <<PERSONA_HEADER>> \o get_persona_with_debug(persona).persona_text
         \o <<PERSONA_FOOTER>>
    ELSE <<>>

\* a reference section written whenever a user scope is given, fetched
\* content or not (gemini.py:294 without its test)
ReferenceSectionAlways(user_id, refs) ==
    IF user_id # ""
    THEN <<REFERENCE_HEADER>>
         \o get_reference_content_with_debug(refs).combined_content
         \o <<REFERENCE_FOOTER>>
    ELSE <<>>

\* Step 3 of the function: the reference section of the prompt
ReferenceSection(user_id, refs) ==
    IF user_id # "" /\ get_reference_content_with_debug(refs).urls_fetched > 0
    THEN <<REFERENCE_HEADER>>
         \o get_reference_content_with_debug(refs).combined_content
         \o <<REFERENCE_FOOTER>>
    ELSE <<>>

\* Step 4 of the function: the prompt, by its variable parts
BuildPrompt(analysis, keywords, project_name, image_urls, user_id, world) ==
    [persona_section |-> PersonaSection(user_id, world.persona),
     reference_section |-> ReferenceSection(user_id, world.refs),
     project_name |-> project_name,
     theme |-> DictGet(analysis, "overall_theme", ""),
     main_keyword |-> MainKeyword(keywords, project_name),
     image_count |-> Len(image_urls),
     image_list |-> [i \in 1..Len(image_urls) |->
                        [pos |-> i, of |-> Len(image_urls),
                         url |-> image_urls[i]]]]

\* len(prompt): the template's fixed text counts one character per part
PromptLength(prompt) ==
    7 + TextLen(prompt.persona_section) + TextLen(prompt.reference_section)
      + Len(prompt.image_list)

\* debug_info as it stands when the model is called (gemini.py:383)
DebugInfo(user_id, world, prompt) ==
    LET persona_debug == get_persona_with_debug(world.persona)
        ref_debug == get_reference_content_with_debug(world.refs)
    IN  [DebugInit(user_id) EXCEPT
            !.persona = IF user_id # "" THEN persona_debug ELSE <<>>,
            !.reference_urls = IF user_id # "" THEN ref_debug ELSE <<>>,
            !.prompt_sections =
                [has_persona |-> user_id # "" /\ persona_debug.has_persona,
                 has_reference |-> user_id # "" /\ ref_debug.urls_fetched > 0,
                 persona_preview |->
                     IF user_id # "" /\ persona_debug.has_persona
                     THEN Slice(persona_debug.persona_text, PREVIEW_LENGTH)
                          \o <<ELLIPSIS>>
                     ELSE <<>>,
                 reference_preview |->
                     IF user_id # "" /\ ref_debug.urls_fetched > 0
                     THEN Slice(ref_debug.combined_content,
                                REFERENCE_PREVIEW_LENGTH) \o <<ELLIPSIS>>
                     ELSE <<>>],
            !.full_prompt_length = PromptLength(prompt)]

\* the reads of steps 2 and 3, in order
LookupCalls(user_id, world) ==
    IF user_id = "" THEN <<>>
    ELSE <<Call("get_settings", <<user_id, "blog_persona">>),
           Call("get_reference_urls", <<user_id>>)>>
         \o ReferenceCalls(world.refs)

\* the result after a decoded response: the repair pass, then the debug trace
\* (gemini.py:396-416)
RepairedResult(result, image_urls, debug_info) ==
    LET content_html == DictGet(result, "content_html", <<>>)
        missing_urls ==
            MissingUrls(image_urls, Range(FindAllImgSrc(content_html)))
    IN  DictSet(IF missing_urls # <<>>
                THEN DictSet(result, "content_html",
                             RepairPass(content_html, image_urls))
                ELSE result,
                "debug", debug_info)

\* an except clause that returns the message alone, as gemini.py:204-205 does
GenerationErrorBare(message, debug_info) ==
    [error |-> message]

\* the except clause of gemini.py:418-419
GenerationError(message, debug_info) ==
    [error |-> message, debug |-> debug_info]

\* the function from gemini.py:242 on, the credential being present
generate_with_key(analysis, keywords, project_name, image_urls, user_id, world) ==
    LET prompt == BuildPrompt(analysis, keywords, project_name, image_urls,
                              user_id, world)
        debug_info == DebugInfo(user_id, world, prompt)
        net == LookupCalls(user_id, world)
               \o <<Call("generate_content", <<"prompt">>)>>
        parsed == ParseResponse(world.response)
    IN  IF ~parsed.ok
        THEN [ret |-> GenerationError(parsed.error, debug_info),
              net |-> net, prompt |-> prompt]
        ELSE IF parsed.doc.type # "object"
        THEN [ret |-> GenerationError(ERR_ATTRIBUTE, debug_info),
              net |-> net, prompt |-> prompt]
        ELSE [ret |-> RepairedResult(parsed.doc.value, image_urls, debug_info),
              net |-> net, prompt |-> prompt]

\* generate_blog_with_gemini without the credential check of gemini.py:238-240
generate_without_key_check(analysis, keywords, project_name, image_urls, user_id, world) ==
    generate_with_key(analysis, keywords, project_name, image_urls, user_id, world)

\* world = [api_key, persona, refs, response]; gives [ret, net, prompt]: the
\* returned dict, the external calls made in order, and the prompt sent
generate_blog_with_gemini(analysis, keywords, project_name, image_urls, user_id, world) ==
    IF ~world.api_key
    THEN [ret |-> [error |-> ERR_NO_KEY], net |-> <<>>, prompt |-> <<>>]
    ELSE generate_with_key(analysis, keywords, project_name, image_urls,
                           user_id, world)

\* ------------------------------------------------------------------------
\* The record store                                  services/database.py
\* ------------------------------------------------------------------------
PROJECT_ID == "p1"
OTHER_PROJECT_ID == "p0"
DB_ERROR == "APIError"              \* what a failed Supabase request raises

\* get_project: the row of the project ({} when the result has no data)
get_project(store, project_id) ==
    IF project_id \in DOMAIN store.projects THEN store.projects[project_id]
    ELSE <<>>

\* get_photos: the photo rows of the project, in display order
RECURSIVE get_photos(_, _)
get_photos(photos, project_id) ==
    IF photos = <<>> THEN <<>>
    ELSE (IF Head(photos).project_id = project_id THEN <<Head(photos)>>
          ELSE <<>>)
         \o get_photos(Tail(photos), project_id)

\* update_project_status: no row is touched when the project is missing
update_project_status(store, project_id, status) ==
    [store EXCEPT !.projects =
        [p \in DOMAIN store.projects |->
            IF p = project_id
            THEN [store.projects[p] EXCEPT !.status = status]
            ELSE store.projects[p]]]

\* a row of blog_contents
ContentRow(id, project_id, title, content_html, tags) ==
    [id |-> id, project_id |-> project_id, title |-> title,
     content_html |-> content_html, tags |-> tags]

\* the rows of blog_contents with the given project_id
ExistingContents(contents, project_id) ==
    {i \in 1..Len(contents) : contents[i].project_id = project_id}

\* save_content that inserts without looking for an existing row
save_content_insert_only(store, project_id, title, content_html, tags) ==
    [store EXCEPT !.contents =
        Append(store.contents,
               ContentRow(Len(store.contents) + 1, project_id, title,
                          content_html, tags))]

\* save_content: update every row of the project when there is one, else
\* insert a row
save_content(store, project_id, title, content_html, tags) ==
    IF ExistingContents(store.contents, project_id) # {}
    THEN [store EXCEPT !.contents =
            [i \in 1..Len(store.contents) |->
                IF store.contents[i].project_id = project_id
                THEN ContentRow(store.contents[i].id, project_id, title,
                                content_html, tags)
                ELSE store.contents[i]]]
    ELSE [store EXCEPT !.contents =
            Append(store.contents,
                   ContentRow(Len(store.contents) + 1, project_id, title,
                              content_html, tags))]

\* ------------------------------------------------------------------------
\* The file-transfer target                               services/ftp.py
\* ------------------------------------------------------------------------
WWW_BLOG == "/www/blog/"
PUBLIC_BLOG == "/blog/"
BASE_URL == "http://base"
DRAFTS == "/drafts/"
HTML_FILENAME == "blog_now.html"   \* blog_<time of the clock reading>.html
NONE == "None"
FTP_ERROR == "ftplib.Error"

\* what the server does with one connection: the step that raises, if any
FtpFates == {"ok", "connect raises", "login raises", "storbinary raises"}

\* remote_path.replace("/www/blog/", "/blog/")
PublicPath(remote_path) ==
    [i \in 1..Len(remote_path) |->
        IF remote_path[i] = WWW_BLOG THEN PUBLIC_BLOG ELSE remote_path[i]]

\* Cafe24FTP.connect: FTP.connect opens the control connection, then login
FtpConnect(server, fate) ==
    IF fate = "connect raises" THEN [raised |-> TRUE, server |-> server]
    ELSE [raised |-> fate = "login raises",
          server |-> [server EXCEPT !.open = server.open + 1]]

\* Cafe24FTP.upload_bytes on an open connection
FtpUploadBytes(server, fate, data, remote_path) ==
    IF fate = "storbinary raises"
    THEN [raised |-> TRUE, url |-> NONE, server |-> server]
    ELSE [raised |-> FALSE,
          url |-> <<BASE_URL>> \o PublicPath(remote_path),
          server |-> [server EXCEPT
                         !.files = [p \in DOMAIN server.files \cup {remote_path}
                                       |-> IF p = remote_path THEN data
                                           ELSE server.files[p]]]]

\* Cafe24FTP.close: quit (or close) the connection
FtpClose(server) == [server EXCEPT !.open = server.open - 1]

\* with Cafe24FTP() as ftp: html_url = ftp.upload_bytes(data, remote_path)
\* __exit__ runs only when __enter__ has returned.  Gives [raised, url,
\* server].
FtpScopedUpload(server, fate, data, remote_path) ==
    IF FtpConnect(server, fate).raised
    THEN [raised |-> TRUE, url |-> NONE,
          server |-> FtpConnect(server, fate).server]
    ELSE [raised |-> fate = "storbinary raises",
          url |-> FtpUploadBytes(FtpConnect(server, fate).server, fate,
                                 data, remote_path).url,
          server |-> FtpClose(FtpUploadBytes(FtpConnect(server, fate).server,
                                             fate, data, remote_path).server)]

\* ------------------------------------------------------------------------
\* Pieces the two handlers of routers/generate.py have in common
\* ------------------------------------------------------------------------
MSG_NO_PROJECT == "project not found"
MSG_NO_PHOTOS == "no uploaded photos"
MSG_NO_URLS == "no valid image URL"
MSG_ANALYSIS_FAILED == "image analysis failed: "
MSG_GENERATION_FAILED == "generation failed: "
SETTINGS_USER_ID == "global"
PAGE_HEAD == "<!DOCTYPE html>...<title>"
PAGE_STYLE == "</title><style>...</style></head><body><h1>"
PAGE_H1_END == "</h1>"
PAGE_TAGS_OPEN == "<div class=tags>"
PAGE_TAG_OPEN == "<span class=tag>#"
PAGE_TAG_CLOSE == "</span>"
PAGE_END == "</div></body></html>"

\* the URL of every photo row, the empty ones too
PhotoUrlsUnfiltered(photos) ==
    [i \in 1..Len(photos) |-> DictGet(photos[i], "ftp_url", "")]

\* [p.get("ftp_url", "") for p in photos if p.get("ftp_url")]
RECURSIVE PhotoUrls(_)
PhotoUrls(photos) ==
    IF photos = <<>> THEN <<>>
    ELSE (IF DictGet(Head(photos), "ftp_url", "") # ""
          THEN <<Head(photos).ftp_url>> ELSE <<>>)
         \o PhotoUrls(Tail(photos))

\* an error test that finds no error
HasErrorNever(result) == FALSE

\* "error" in result
HasError(result) == "error" \in DOMAIN result

\* the HTML page written to the file-transfer target
HtmlPage(title, content_html, tags) ==
    <<PAGE_HEAD, title, PAGE_STYLE, title, PAGE_H1_END>> \o content_html
    \o <<PAGE_TAGS_OPEN>>
    \o Flatten([i \in 1..Len(tags) |-> <<PAGE_TAG_OPEN, tags[i], PAGE_TAG_CLOSE>>])
    \o <<PAGE_END>>

\* f"{ftp_path}/drafts/{html_filename}"
RemotePath(ftp_path) == ftp_path \o <<DRAFTS, HTML_FILENAME>>

\* ------------------------------------------------------------------------
\* A request being served: the locals of its handler, the events or the
\* response sent so far, and the calls it has made
\* ------------------------------------------------------------------------
TOTAL_STEPS == 5
COMMA == ","

IdleRun ==
    [mode |-> "none", pc |-> "idle", request |-> <<>>, project_name |-> "",
     ftp_path |-> <<>>, image_urls |-> <<>>, analysis_result |-> <<>>,
     blog_result |-> <<>>, html_url |-> NONE, upload |-> "none",
     events |-> <<>>, response |-> <<>>, ops |-> <<>>]

\* the call is added to what the run has done
Did(run, op, arg) == [run EXCEPT !.ops = Append(@, Call(op, arg))]

\* f"event: {event}\ndata: {json.dumps(data)}\n\n"
create_sse_message(event, data) ==
    <<"event: ", event, NL, "data: ", data, NL, NL>>

\* the event name and the data of a message
EventOf(message) == message[2]
DataOf(message) == message[5]

\* yield create_sse_message(event, data)
Yield(run, event, data) ==
    [run EXCEPT !.events = Append(@, create_sse_message(event, data))]

\* a progress event whose step counts from 0
ProgressFromZero(step, message, percent) ==
    [step |-> step - 1, total |-> TOTAL_STEPS, message |-> message,
     percent |-> percent]

\* the data of a progress event
Progress(step, message, percent) ==
    [step |-> step, total |-> TOTAL_STEPS, message |-> message,
     percent |-> percent]

\* a return that yields no error event
StreamFailSilent(run, message) ==
    [run EXCEPT !.pc = "done"]

\* yield the error event and return (also the except clause, with str(e))
StreamFail(run, message) ==
    [Yield(run, "error", [message |-> message]) EXCEPT !.pc = "done"]

\* the first index of a comma in text, or 0
FirstComma(text) == FirstIn(text, 1, {COMMA})

\* keywords.split(",")
RECURSIVE SplitComma(_)
SplitComma(text) ==
    IF FirstComma(text) = 0 THEN <<text>>
    ELSE <<SubSeq(text, 1, FirstComma(text) - 1)>>
         \o SplitComma(SubSeq(text, FirstComma(text) + 1, Len(text)))

\* [k.strip() for k in keywords.split(",")] if keywords
\* else analysis_result.get("main_keywords", [])            generate.py:121
StreamKeywordList(keywords, analysis_result) ==
    IF keywords # <<>>
    THEN [i \in 1..Len(SplitComma(keywords)) |-> Strip(SplitComma(keywords)[i])]
    ELSE DictGet(analysis_result, "main_keywords", <<>>)

\* data.keywords if data and data.keywords
\* else analysis_result.get("main_keywords", [])            generate.py:256
BlockingKeywordList(data, analysis_result) ==
    IF data # <<>> /\ DictGet(data, "keywords", <<>>) # <<>>
    THEN data.keywords
    ELSE DictGet(analysis_result, "main_keywords", <<>>)

\* ------------------------------------------------------------------------
\* State
\* ------------------------------------------------------------------------
VARIABLES
    store,      \* the record store: projects, photos and contents
    server,     \* the file server: open connections and files
    api_key,    \* whether GOOGLE_API_KEY is set in the environment
    runs,       \* the requests being served, by request
    writes,     \* the content saves the record store has executed, in order
    fn,         \* the service function called: its name, arguments and world
    fnDone,     \* whether the call has returned
    fnOut,      \* what it returned: [ret, net, prompt]
    passes      \* the outputs of successive repair passes on the result

fnVars == <<fn, fnDone, fnOut, passes>>
handlerVars == <<store, server, api_key, runs, writes>>
vars == <<store, server, api_key, runs, writes, fn, fnDone, fnOut, passes>>

\* ------------------------------------------------------------------------
\* Inputs of the service functions
\* ------------------------------------------------------------------------
\* what httpx.get can do for a URL
RespOk(body) == [exc |-> "", status_code |-> 200, body |-> body]
Resp404 == [exc |-> "", status_code |-> 404, body |-> <<>>]
RespTimeout == [exc |-> "timed out", status_code |-> 0, body |-> <<>>]
ImageResps == {RespOk(<<WORD>>), Resp404, RespTimeout}

\* the non-empty lists of image URLs
ImageUrls == {"u1", "u2"}
UrlLists == SeqsUpTo(ImageUrls, MaxImages) \ {<<>>}

\* HTML the model can write: fragments put one after the other
ImgTag(url) == <<LT_IMG, SP, SRC_EQ, DQ, url, DQ, GT>>
ImgTagSingleQuoted(url) == <<LT_IMG, SP, SRC_SQ, url, SQ, GT>>
ImgTagUnterminated == <<LT_IMG, SP, SRC_EQ, DQ, BROKEN>>
Fragments ==
    {ImgTag("u1"), ImgTag("u2"), ImgTag(ForeignUrl), ImgTagSingleQuoted("u1"),
     ImgTagUnterminated, <<ART_CLOSE>>, <<PARA>>}
HtmlSet == {Flatten(fs) : fs \in SeqsUpTo(Fragments, MaxFrags)}

\* the forms a response text takes: the JSON text alone, in a fence labeled
\* json, in a fence without a label
Forms(json_text) ==
    {json_text,
     <<FENCE, JSON_TAG, NL>> \o json_text \o <<NL, FENCE>>,
     <<FENCE, NL>> \o json_text \o <<NL, FENCE>>}
TextForms == Forms(<<JSON_DOC>>)
ArrayDoc == [type |-> "array", value |-> <<>>]
ObjectDoc(value) == [type |-> "object", value |-> value]
Responses(docs) ==
    {[exc |-> "model error", text |-> <<>>, doc |-> ArrayDoc],
     [exc |-> "", text |-> <<GARBAGE>>, doc |-> ArrayDoc]}
    \cup {[exc |-> "", text |-> t, doc |-> d] : t \in TextForms, d \in docs}

\* decoded analyses and blog posts
AnalysisFull ==
    [suggested_title |-> "title", overall_theme |-> "theme",
     main_keywords |-> <<"ak1", "ak2">>, images |-> <<>>]
AnalysisBare == [overall_theme |-> "theme"]
AnalysisDocs == {ObjectDoc(AnalysisFull), ObjectDoc(AnalysisBare), ArrayDoc}

BlogPost(title, content_html) ==
    [title |-> title, content_html |-> content_html, tags |-> <<"tag">>]
HtmlFew ==
    {<<ART_OPEN, ART_CLOSE>>,
     <<ART_OPEN>> \o ImgTag("u1") \o <<PARA, ART_CLOSE>>}
BlogDocs ==
    {ObjectDoc(BlogPost("T", h)) : h \in HtmlFew}
    \cup {ObjectDoc([title |-> "T"]),
          ObjectDoc([error |-> "refused", title |-> "T"]),
          ArrayDoc}

\* stored persona values and reference-source lists
TextSome == <<SP, WORD, SP, WORD, NL>>
Personas ==
    {[type |-> "none", text |-> <<>>], [type |-> "other", text |-> <<>>],
     [type |-> "str", text |-> <<>>], [type |-> "str", text |-> <<SP, NL>>],
     [type |-> "str", text |-> TextSome]}
NoPersona == [type |-> "none", text |-> <<>>]
RefSource(url, title, resp) == [url |-> url, title |-> title, resp |-> resp]
RefLists ==
    {<<>>,
     <<RefSource("r1", "post", RespOk(<<TAG, WORD, SP, WORD, TAG>>))>>,
     <<RefSource("r1", "", Resp404)>>,
     <<RefSource("r1", "", RespOk(<<TAG>>)), RefSource("r2", "post", RespTimeout)>>}

AnalyzeCalls ==
    {[name |-> "analyze", image_urls |-> us, project_name |-> "P",
      world |-> [api_key |-> k, http |-> h, response |-> r]] :
        us \in UrlLists, k \in BOOLEAN, h \in [ImageUrls -> ImageResps],
        r \in Responses(AnalysisDocs)}

GenerateCall(us, kw, uid, k, p, rs, r) ==
    [name |-> "generate", analysis |-> AnalysisFull, keywords |-> kw,
     project_name |-> "P", image_urls |-> us, user_id |-> uid,
     world |-> [api_key |-> k, persona |-> p, refs |-> rs, response |-> r]]

\* every HTML of HtmlSet, the surroundings fixed
GenerateHtmlCalls ==
    {GenerateCall(us, <<>>, "global", TRUE, NoPersona, <<>>,
                  [exc |-> "", text |-> <<JSON_DOC>>,
                   doc |-> ObjectDoc(BlogPost("T", h))]) :
        us \in UrlLists, h \in HtmlSet}

\* every surrounding, the HTML one of HtmlFew
GenerateWorldCalls ==
    {GenerateCall(us, kw, uid, k, p, rs, r) :
        us \in {<<"u1">>, <<"u1", "u2">>}, kw \in {<<>>, <<"kw", "kw2">>},
        uid \in {"global"}, k \in BOOLEAN, p \in Personas, rs \in RefLists,
        r \in Responses(BlogDocs)}
    \cup
    {GenerateCall(<<"u1">>, <<>>, "", k, p, rs, r) :
        k \in BOOLEAN, p \in {NoPersona, [type |-> "str", text |-> TextSome]},
        rs \in RefLists, r \in Responses({ObjectDoc(BlogPost("T", <<>>))})}

\* responses whose JSON text holds a fenced passage in a string, in the three
\* forms, the surroundings fixed
FencedJsonCalls ==
    {[name |-> "analyze", image_urls |-> <<"u1">>, project_name |-> "P",
      world |-> [api_key |-> TRUE, http |-> [u \in ImageUrls |-> RespOk(<<WORD>>)],
                 response |-> [exc |-> "", text |-> t,
                               doc |-> ObjectDoc(AnalysisFull)]]] :
        t \in Forms(JSON_WITH_FENCES)}
    \cup
    {GenerateCall(<<"u1">>, <<>>, "global", TRUE, NoPersona, <<>>,
                  [exc |-> "", text |-> t,
                   doc |-> ObjectDoc(BlogPost("T", ImgTag("u1")))]) :
        t \in Forms(JSON_WITH_FENCES)}

\* one page fetched: every status and body, or an exception of the transport
Resp(status_code, body) ==
    [exc |-> "", status_code |-> status_code, body |-> body]
RespRefused == [exc |-> "connection refused", status_code |-> 0, body |-> <<>>]
StatusCodes == {200, 204, 404, 500}
PageBodies ==
    {<<>>, <<SP, NL>>, <<TAG>>, <<SCRIPT_OPEN, WORD, SCRIPT_CLOSE>>,
     <<CMT_OPEN, WORD, CMT_CLOSE, STYLE_OPEN, STYLE_CLOSE>>,
     <<TAG, WORD, SP, NL, WORD, TAG>>, <<WORD, WORD, WORD>>}
FetchResps ==
    {Resp(c, b) : c \in StatusCodes, b \in PageBodies}
    \cup {RespTimeout, RespRefused}
FetchInputs ==
    {[name |-> "fetch", url |-> "s1", max_length |-> n, resp |-> r] :
        n \in {2, MAX_LENGTH_DEFAULT}, r \in FetchResps}

\* the active reference sources of a user scope: up to MaxRefs rows, each
\* with its own URL, every other one with a title, and what its fetch does
RefResps == {RespOk(<<TAG, WORD>>), RespOk(<<TAG>>), RespTimeout}
SourceUrl(i) == "s" \o ToString(i)
SourceTitle(i) == IF i % 2 = 0 THEN "t" \o ToString(i) ELSE ""
SourceLists ==
    UNION {{[i \in 1..k |-> RefSource(SourceUrl(i), SourceTitle(i), rs[i])] :
               rs \in [1..k -> RefResps]} : k \in 0..MaxRefs}
ReferenceInputs ==
    {[name |-> "references", user_id |-> SETTINGS_USER_ID, refs |-> l] :
        l \in SourceLists}

PersonaInputs ==
    {[name |-> "persona", user_id |-> SETTINGS_USER_ID, persona |-> p] :
        p \in Personas}

\* a generation request as it reaches line 121 or 256 of routers/generate.py:
\* the caller's keywords, the analysis and the project name.  Keywords and
\* names are texts here.
KeywordStrings ==
    {<<>>, <<"kw">>, <<SP, "kw", SP, COMMA, "kw2">>, <<SP>>, <<COMMA, "kw2">>}
KeywordBodies ==
    {<<>>, [keywords |-> <<>>], [keywords |-> <<<<"kw">>, <<"kw2">>>>]}
KeywordAnalyses ==
    {[overall_theme |-> "theme", main_keywords |-> <<<<"ak1">>, <<"ak2">>>>],
     [overall_theme |-> "theme", main_keywords |-> <<>>],
     [overall_theme |-> "theme"]}
KeywordInputs ==
    {[name |-> "keywords", mode |-> "stream", request |-> q, analysis |-> a,
      project_name |-> <<"P">>] : q \in KeywordStrings, a \in KeywordAnalyses}
    \cup
    {[name |-> "keywords", mode |-> "block", request |-> d, analysis |-> a,
      project_name |-> <<"P">>] : d \in KeywordBodies, a \in KeywordAnalyses}

FnCalls ==
    AnalyzeCalls \cup GenerateHtmlCalls \cup GenerateWorldCalls
    \cup FencedJsonCalls
    \cup FetchInputs \cup ReferenceInputs \cup PersonaInputs \cup KeywordInputs

\* ------------------------------------------------------------------------
\* What the outside world does during a request
\* ------------------------------------------------------------------------
Runs == {"r1", "r2"}

\* the keywords query parameter of the streaming endpoint
StreamKeywords == {<<>>, <<SP, "kw", SP, COMMA, "kw2">>}

\* the body of the blocking endpoint (<<>> when there is none)
BlockingData == {<<>>, [keywords |-> <<"kw", "kw2">>]}

AllOk == [u \in ImageUrls |-> RespOk(<<WORD>>)]
All404 == [u \in ImageUrls |-> Resp404]
JsonResponse(doc) == [exc |-> "", text |-> <<JSON_DOC>>, doc |-> doc]
ModelRaises == [exc |-> "model error", text |-> <<>>, doc |-> ArrayDoc]
RefusedDoc == ObjectDoc([error |-> "refused", title |-> "T"])

\* downloads and model responses of one analysis
AnalyzeWorlds ==
    {[http |-> AllOk, response |-> r] :
        r \in {ModelRaises, JsonResponse(ObjectDoc(AnalysisFull)),
               JsonResponse(RefusedDoc)}}
    \cup {[http |-> All404, response |-> JsonResponse(ObjectDoc(AnalysisFull))]}

\* stored persona, reference sources and model responses of one generation
GenerateWorlds ==
    {[persona |-> [type |-> "str", text |-> TextSome],
      refs |-> <<RefSource("r1", "post", RespOk(<<TAG, WORD, TAG>>))>>,
      response |-> r] :
        r \in {ModelRaises,
               JsonResponse(ObjectDoc(BlogPost("T1", <<ART_OPEN, ART_CLOSE>>))),
               JsonResponse(ObjectDoc(BlogPost("T2",
                   <<ART_OPEN>> \o ImgTag("u1") \o <<ART_CLOSE>>))),
               JsonResponse(RefusedDoc)}}

\* the result of analyze_images_with_gemini(image_urls, project_name)
AnalysisOf(run, key, w) ==
    analyze_images_with_gemini(run.image_urls, run.project_name,
        [api_key |-> key, http |-> w.http, response |-> w.response]).ret

\* the result of generate_blog_with_gemini(analysis_result, keyword_list,
\* project_name, image_urls, settings_user_id)
BlogOf(run, keyword_list, key, w) ==
    generate_blog_with_gemini(run.analysis_result, keyword_list,
        run.project_name, run.image_urls, SETTINGS_USER_ID,
        [api_key |-> key, persona |-> w.persona, refs |-> w.refs,
         response |-> w.response]).ret

\* ------------------------------------------------------------------------
\* The record store and the file server at the start
\* ------------------------------------------------------------------------
FTP_PATH == <<WWW_BLOG, "p1">>
Photo(url) == [project_id |-> PROJECT_ID, ftp_url |-> url]
PhotoNoUrl == [project_id |-> PROJECT_ID, ftp_url |-> ""]
PhotoOther == [project_id |-> OTHER_PROJECT_ID, ftp_url |-> "u0"]
ProjectRow(ftp_path) == [name |-> "P", ftp_path |-> ftp_path, status |-> "draft"]
OtherContent == ContentRow(1, OTHER_PROJECT_ID, "other", <<PARA>>, <<>>)
OldContent == ContentRow(2, PROJECT_ID, "old", <<PARA>>, <<"old tag">>)

Store(projects, photos, contents) ==
    [projects |-> projects, photos |-> photos, contents |-> contents]
OneProject(ftp_path) == [p \in {PROJECT_ID} |-> ProjectRow(ftp_path)]

Stores ==
    {Store(<<>>, <<PhotoOther>>, <<OtherContent>>),
     Store(OneProject(FTP_PATH), <<PhotoOther>>, <<OtherContent>>),
     Store(OneProject(FTP_PATH), <<PhotoOther, PhotoNoUrl>>, <<OtherContent>>),
     Store(OneProject(FTP_PATH), <<PhotoOther, Photo("u1")>>, <<OtherContent>>),
     Store(OneProject(<<>>), <<Photo("u1"), PhotoNoUrl, Photo("u2")>>,
           <<OtherContent, OldContent>>)}

\* ------------------------------------------------------------------------
\* The service functions, called on their own
\* ------------------------------------------------------------------------
NoOut == [ret |-> [pending |-> TRUE], net |-> <<>>, prompt |-> <<>>]
NoCall == [name |-> "none"]

InitFn ==
    /\ store = Store(<<>>, <<>>, <<>>)
    /\ server = [open |-> 0, files |-> <<>>]
    /\ api_key = TRUE
    /\ runs = [r \in Runs |-> IdleRun]
    /\ writes = <<>>
    /\ fn \in FnCalls
    /\ fnDone = FALSE
    /\ fnOut = NoOut
    /\ passes = <<>>

\* the prompt field is kept for generate only
AnalyzeOut(r) == [ret |-> r.ret, net |-> r.net, prompt |-> <<>>]

\* the HTML a returned dict carries, as the first element of passes
ReturnedHtml(ret) ==
    IF "content_html" \in DOMAIN ret THEN <<ret.content_html>> ELSE <<>>

AnalyzeImages ==
    /\ fn.name = "analyze"
    /\ ~fnDone
    /\ fnDone' = TRUE
    /\ fnOut' = AnalyzeOut(analyze_images_with_gemini(fn.image_urls,
                                fn.project_name, fn.world))
    /\ UNCHANGED <<fn, passes, handlerVars>>

GenerateBlog ==
    /\ fn.name = "generate"
    /\ ~fnDone
    /\ fnDone' = TRUE
    /\ fnOut' = generate_blog_with_gemini(fn.analysis, fn.keywords,
                     fn.project_name, fn.image_urls, fn.user_id, fn.world)
    /\ passes' = ReturnedHtml(fnOut'.ret)
    /\ UNCHANGED <<fn, handlerVars>>

\* the repair pass applied once more to its own output
MaxPasses == 2
RepairAgain ==
    /\ fnDone
    /\ Len(passes) \in 1..(MaxPasses - 1)
    /\ passes' = Append(passes, RepairPass(passes[Len(passes)], fn.image_urls))
    /\ UNCHANGED <<fn, fnDone, fnOut, handlerVars>>

FetchUrlContent ==
    /\ fn.name = "fetch"
    /\ ~fnDone
    /\ fnDone' = TRUE
    /\ fnOut' = [ret |-> fetch_url_content(fn.url, fn.max_length, fn.resp),
                 net |-> FetchRequests(fn.url, fn.resp),
                 prompt |-> <<>>]
    /\ UNCHANGED <<fn, passes, handlerVars>>

GetReferenceContent ==
    /\ fn.name = "references"
    /\ ~fnDone
    /\ fnDone' = TRUE
    /\ fnOut' = [ret |-> get_reference_content_with_debug(fn.refs),
                 net |-> <<Call("get_reference_urls", <<fn.user_id>>)>>
                         \o ReferenceCalls(fn.refs),
                 prompt |-> <<>>]
    /\ UNCHANGED <<fn, passes, handlerVars>>

GetPersona ==
    /\ fn.name = "persona"
    /\ ~fnDone
    /\ fnDone' = TRUE
    /\ fnOut' = [ret |-> get_persona_with_debug(fn.persona),
                 net |-> <<Call("get_settings", <<fn.user_id, "blog_persona">>)>>,
                 prompt |-> <<>>]
    /\ UNCHANGED <<fn, passes, handlerVars>>

\* the keyword list of the request, as its handler computes it
KeywordListOf(call) ==
    IF call.mode = "stream"
    THEN StreamKeywordList(call.request, call.analysis)
    ELSE BlockingKeywordList(call.request, call.analysis)

\* lines 121-122 and 256-257 of routers/generate.py: the keyword list is
\* computed and handed to generate_blog_with_gemini, which builds the prompt
GenerateForRequest ==
    /\ fn.name = "keywords"
    /\ ~fnDone
    /\ fnDone' = TRUE
    /\ fnOut' = generate_blog_with_gemini(fn.analysis, KeywordListOf(fn),
                     fn.project_name, <<"u1">>, SETTINGS_USER_ID,
                     [api_key |-> TRUE, persona |-> NoPersona, refs |-> <<>>,
                      response |-> JsonResponse(ObjectDoc(BlogPost("T", <<>>)))])
    /\ UNCHANGED <<fn, passes, handlerVars>>

NextFn ==
    \/ AnalyzeImages
    \/ GenerateBlog
    \/ RepairAgain
    \/ FetchUrlContent
    \/ GetReferenceContent
    \/ GetPersona
    \/ GenerateForRequest

SpecFn == InitFn /\ [][NextFn]_vars

\* ------------------------------------------------------------------------
\* The two handlers run on one event loop (main.py:77, a single process).
\* Their calls to the services are synchronous, so a handler runs without
\* interruption from one await or yield to the next; the blocking handler has
\* none, so nothing else runs between its first and its last statement.
\* ------------------------------------------------------------------------
Init ==
    /\ store \in Stores
    /\ server = [open |-> 0, files |-> <<>>]
    /\ api_key \in BOOLEAN
    /\ runs = [r \in Runs |-> IdleRun]
    /\ writes = <<>>
    /\ fn = NoCall
    /\ fnDone = TRUE
    /\ fnOut = NoOut
    /\ passes = <<>>

\* no blocking handler is in the middle of its run
LoopFree == \A q \in Runs : runs[q].mode = "block" => runs[q].pc = "done"

\* the streaming run r is suspended at a yield or a sleep
Suspended(r) ==
    /\ runs[r].mode = "stream"
    /\ runs[r].pc \notin {"idle", "done", "cancelled"}

SetRun(r, run) == runs' = [runs EXCEPT ![r] = run]

\* ------------------------------------------------------------------------
\* generate_blog_content_stream.event_generator      generate.py:41-211
\* ------------------------------------------------------------------------
\* the request arrives and the generator runs to its first yield
StreamStart(r) ==
    /\ LoopFree
    /\ runs[r].pc = "idle"
    /\ \E keywords \in StreamKeywords :
        SetRun(r, Yield([IdleRun EXCEPT !.mode = "stream",
                                        !.request = keywords,
                                        !.pc = "confirm"],
                        "progress", Progress(1, <<"checking project">>, 5)))
    /\ UNCHANGED <<store, server, api_key, writes, fnVars>>

\* StreamConfirmed with the second progress event left for after get_photos
StreamConfirmedQuiet(run, project) ==
    IF project = <<>> THEN StreamFail(run, <<MSG_NO_PROJECT>>)
    ELSE [run EXCEPT !.project_name = DictGet(project, "name", ""),
                     !.ftp_path = DictGet(project, "ftp_path", <<>>),
                     !.pc = "photos"]

\* after get_project has returned
StreamConfirmed(run, project) ==
    IF project = <<>> THEN StreamFail(run, <<MSG_NO_PROJECT>>)
    ELSE Yield([run EXCEPT !.project_name = DictGet(project, "name", ""),
                           !.ftp_path = DictGet(project, "ftp_path", <<>>),
                           !.pc = "photos"],
               "progress", Progress(2, <<"downloading images">>, 15))

StreamConfirmProject(r) ==
    /\ LoopFree
    /\ runs[r].mode = "stream"
    /\ runs[r].pc = "confirm"
    /\ \E raises \in BOOLEAN :
        SetRun(r, IF raises
                  THEN StreamFail(Did(runs[r], "get_project", <<PROJECT_ID>>),
                                  <<DB_ERROR>>)
                  ELSE StreamConfirmed(
                           Did(runs[r], "get_project", <<PROJECT_ID>>),
                           get_project(store, PROJECT_ID)))
    /\ UNCHANGED <<store, server, api_key, writes, fnVars>>

\* after get_photos has returned
StreamPrepared(run, photos) ==
    IF photos = <<>> THEN StreamFail(run, <<MSG_NO_PHOTOS>>)
    ELSE IF PhotoUrls(photos) = <<>> THEN StreamFail(run, <<MSG_NO_URLS>>)
    ELSE Yield([run EXCEPT !.image_urls = PhotoUrls(photos), !.pc = "mark"],
               "progress",
               Progress(2, <<"images ready: ", ToString(Len(PhotoUrls(photos)))>>, 20))

StreamPreparePhotos(r) ==
    /\ LoopFree
    /\ runs[r].mode = "stream"
    /\ runs[r].pc = "photos"
    /\ \E raises \in BOOLEAN :
        SetRun(r, IF raises
                  THEN StreamFail(Did(runs[r], "get_photos", <<PROJECT_ID>>),
                                  <<DB_ERROR>>)
                  ELSE StreamPrepared(
                           Did(runs[r], "get_photos", <<PROJECT_ID>>),
                           get_photos(store.photos, PROJECT_ID)))
    /\ UNCHANGED <<store, server, api_key, writes, fnVars>>

StreamMarkAnalyzing(r) ==
    /\ LoopFree
    /\ runs[r].mode = "stream"
    /\ runs[r].pc = "mark"
    /\ \E raises \in BOOLEAN :
        IF raises
        THEN /\ SetRun(r, StreamFail(Did(runs[r], "update_project_status",
                                         <<PROJECT_ID, "analyzing">>),
                                     <<DB_ERROR>>))
             /\ UNCHANGED store
        ELSE /\ store' = update_project_status(store, PROJECT_ID, "analyzing")
             /\ SetRun(r, Yield([Did(runs[r], "update_project_status",
                                     <<PROJECT_ID, "analyzing">>)
                                 EXCEPT !.pc = "analyze"],
                                "progress",
                                Progress(3, <<"analyzing images">>, 30)))
    /\ UNCHANGED <<server, api_key, writes, fnVars>>

\* after analyze_images_with_gemini has returned
StreamAnalyzed(run, analysis_result) ==
    IF HasError(analysis_result)
    THEN StreamFail([run EXCEPT !.analysis_result = analysis_result],
                    <<MSG_ANALYSIS_FAILED, analysis_result.error>>)
    ELSE Yield([run EXCEPT !.analysis_result = analysis_result,
                           !.pc = "announce write"],
               "progress", Progress(3, <<"images analyzed">>, 50))

StreamAnalyze(r) ==
    /\ LoopFree
    /\ runs[r].mode = "stream"
    /\ runs[r].pc = "analyze"
    /\ \E w \in AnalyzeWorlds :
        SetRun(r, StreamAnalyzed(
                      Did(runs[r], "analyze_images_with_gemini",
                          runs[r].image_urls),
                      AnalysisOf(runs[r], api_key, w)))
    /\ UNCHANGED <<store, server, api_key, writes, fnVars>>

StreamAnnounceWrite(r) ==
    /\ LoopFree
    /\ runs[r].mode = "stream"
    /\ runs[r].pc = "announce write"
    /\ SetRun(r, Yield([runs[r] EXCEPT !.pc = "generate"],
                       "progress", Progress(4, <<"writing the post">>, 60)))
    /\ UNCHANGED <<store, server, api_key, writes, fnVars>>

\* after generate_blog_with_gemini has returned
StreamGenerated(run, blog_result) ==
    IF HasError(blog_result)
    THEN StreamFail([run EXCEPT !.blog_result = blog_result],
                    <<MSG_GENERATION_FAILED, blog_result.error>>)
    ELSE Yield([run EXCEPT !.blog_result = blog_result,
                           !.pc = "announce save"],
               "progress", Progress(4, <<"post written">>, 80))

StreamGenerate(r) ==
    /\ LoopFree
    /\ runs[r].mode = "stream"
    /\ runs[r].pc = "generate"
    /\ \E w \in GenerateWorlds :
        SetRun(r, StreamGenerated(
                      Did(runs[r], "generate_blog_with_gemini",
                          runs[r].image_urls),
                      BlogOf(runs[r],
                             StreamKeywordList(runs[r].request,
                                               runs[r].analysis_result),
                             api_key, w)))
    /\ UNCHANGED <<store, server, api_key, writes, fnVars>>

StreamAnnounceSave(r) ==
    /\ LoopFree
    /\ runs[r].mode = "stream"
    /\ runs[r].pc = "announce save"
    /\ SetRun(r, Yield([runs[r] EXCEPT !.pc = "persist"],
                       "progress", Progress(5, <<"saving">>, 85)))
    /\ UNCHANGED <<store, server, api_key, writes, fnVars>>

\* blog_result.get("title", ""), .get("content_html", ""), .get("tags", [])
TitleOf(blog_result) == DictGet(blog_result, "title", "")
ContentHtmlOf(blog_result) == DictGet(blog_result, "content_html", <<>>)
TagsOf(blog_result) == DictGet(blog_result, "tags", <<>>)

\* what can go wrong while persisting: the record-store call that raises, and
\* what the file server does
DbRaises == {"none", "save_content", "update_project_status"}

\* if ftp_path: the page is uploaded in a scoped connection and an exception
\* of the upload is swallowed (generate.py:151-188, and 268-307 in the
\* blocking handler).  Gives [raised, url, server].
UploadPage(run, srv, fate) ==
    IF run.ftp_path # <<>>
    THEN FtpScopedUpload(srv, fate,
                         HtmlPage(TitleOf(run.blog_result),
                                  ContentHtmlOf(run.blog_result),
                                  TagsOf(run.blog_result)),
                         RemotePath(run.ftp_path))
    ELSE [raised |-> FALSE, url |-> NONE, server |-> srv]

\* a persist step that sets the status before it saves, so that the project
\* is 'generated' even when save_content raises
PersistStoreMarksFirst(st, blog_result, db_raises) ==
    IF db_raises = "save_content"
    THEN update_project_status(st, PROJECT_ID, "generated")
    ELSE update_project_status(
             save_content(st, PROJECT_ID, TitleOf(blog_result),
                          ContentHtmlOf(blog_result), TagsOf(blog_result)),
             PROJECT_ID, "generated")

\* the record store after save_content and update_project_status, up to the
\* call that raises
PersistStore(st, blog_result, db_raises) ==
    IF db_raises = "save_content" THEN st
    ELSE IF db_raises = "update_project_status"
    THEN save_content(st, PROJECT_ID, TitleOf(blog_result),
                      ContentHtmlOf(blog_result), TagsOf(blog_result))
    ELSE update_project_status(
             save_content(st, PROJECT_ID, TitleOf(blog_result),
                          ContentHtmlOf(blog_result), TagsOf(blog_result)),
             PROJECT_ID, "generated")

\* the saves executed, after the persist step of run r
PersistWrites(log, r, blog_result, db_raises) ==
    IF db_raises = "save_content" THEN log
    ELSE Append(log, [run |-> r, title |-> TitleOf(blog_result),
                      content_html |-> ContentHtmlOf(blog_result),
                      tags |-> TagsOf(blog_result)])

\* the file server after the upload, when the run gets that far
PersistServer(run, srv, db_raises, fate) ==
    IF db_raises = "save_content" THEN srv
    ELSE UploadPage(run, srv, fate).server

\* the run after save_content and the upload; up is what UploadPage gave.
\* html_url is assigned when upload_bytes returns, and upload keeps how the
\* scoped upload ended
SavedAndUploaded(run, up) ==
    IF run.ftp_path # <<>>
    THEN Did([Did(run, "save_content", <<PROJECT_ID>>) EXCEPT
                 !.html_url = IF up.raised THEN run.html_url ELSE up.url,
                 !.upload = IF up.raised THEN "raised" ELSE "ok"],
             "Cafe24FTP.upload_bytes", RemotePath(run.ftp_path))
    ELSE Did(run, "save_content", <<PROJECT_ID>>)

\* a persist step that gives up when the upload raises
StreamPersistedUploadFatal(run, db_raises, up) ==
    IF db_raises = "save_content"
    THEN StreamFail(Did(run, "save_content", <<PROJECT_ID>>), <<DB_ERROR>>)
    ELSE IF up.raised
    THEN StreamFail(SavedAndUploaded(run, up), <<FTP_ERROR>>)
    ELSE IF db_raises = "update_project_status"
    THEN StreamFail(Did(SavedAndUploaded(run, up), "update_project_status",
                        <<PROJECT_ID, "generated">>),
                    <<DB_ERROR>>)
    ELSE Yield([Did(SavedAndUploaded(run, up), "update_project_status",
                    <<PROJECT_ID, "generated">>)
                EXCEPT !.pc = "complete"],
               "progress", Progress(5, <<"done">>, 100))

\* the streaming run after the persist step
StreamPersisted(run, db_raises, up) ==
    IF db_raises = "save_content"
    THEN StreamFail(Did(run, "save_content", <<PROJECT_ID>>), <<DB_ERROR>>)
    ELSE IF db_raises = "update_project_status"
    THEN StreamFail(Did(SavedAndUploaded(run, up), "update_project_status",
                        <<PROJECT_ID, "generated">>),
                    <<DB_ERROR>>)
    ELSE Yield([Did(SavedAndUploaded(run, up), "update_project_status",
                    <<PROJECT_ID, "generated">>)
                EXCEPT !.pc = "complete"],
               "progress", Progress(5, <<"done">>, 100))

StreamPersist(r) ==
    /\ LoopFree
    /\ runs[r].mode = "stream"
    /\ runs[r].pc = "persist"
    /\ \E db_raises \in DbRaises, fate \in FtpFates :
        /\ (runs[r].ftp_path = <<>> \/ db_raises = "save_content") => fate = "ok"
        /\ store' = PersistStore(store, runs[r].blog_result, db_raises)
        /\ writes' = PersistWrites(writes, r, runs[r].blog_result, db_raises)
        /\ server' = PersistServer(runs[r], server, db_raises, fate)
        /\ SetRun(r, StreamPersisted(runs[r], db_raises,
                                     UploadPage(runs[r], server, fate)))
    /\ UNCHANGED <<api_key, fnVars>>

StreamComplete(r) ==
    /\ LoopFree
    /\ runs[r].mode = "stream"
    /\ runs[r].pc = "complete"
    /\ SetRun(r, Yield([runs[r] EXCEPT !.pc = "done"], "complete",
                       [title |-> TitleOf(runs[r].blog_result),
                        content_html |-> ContentHtmlOf(runs[r].blog_result),
                        tags |-> TagsOf(runs[r].blog_result),
                        html_url |-> runs[r].html_url,
                        debug |-> DictGet(runs[r].blog_result, "debug", <<>>)]))
    /\ UNCHANGED <<store, server, api_key, writes, fnVars>>

\* a cancellation that puts the project back to 'draft'
CancelRollsBack(r) ==
    /\ LoopFree
    /\ Suspended(r)
    /\ SetRun(r, [runs[r] EXCEPT !.pc = "cancelled"])
    /\ store' = IF PROJECT_ID \in DOMAIN store.projects
                THEN update_project_status(store, PROJECT_ID, "draft")
                ELSE store
    /\ UNCHANGED <<server, api_key, writes, fnVars>>

\* the client goes away while the generator is suspended: the generator is
\* closed where it stands and nothing of it runs again
Cancel(r) ==
    /\ LoopFree
    /\ Suspended(r)
    /\ SetRun(r, [runs[r] EXCEPT !.pc = "cancelled"])
    /\ UNCHANGED <<store, server, api_key, writes, fnVars>>

\* ------------------------------------------------------------------------
\* generate_blog_content                              generate.py:224-325
\* ------------------------------------------------------------------------
\* raise HTTPException(status_code, detail); the last except clause turns any
\* other exception e into HTTPException(500, str(e))
HTTPException(run, status_code, detail) ==
    [run EXCEPT !.response = [status_code |-> status_code, detail |-> detail],
                !.pc = "done"]

\* a response that leaves the debug trace out
GenerateResponseWithoutDebug(run) ==
    [run EXCEPT !.response =
                    [status_code |-> 200,
                     title |-> TitleOf(run.blog_result),
                     content_html |-> ContentHtmlOf(run.blog_result),
                     tags |-> TagsOf(run.blog_result),
                     html_url |-> run.html_url,
                     debug |-> <<>>],
                !.pc = "done"]

\* return GenerateResponse(...)
GenerateResponse(run) ==
    [run EXCEPT !.response =
                    [status_code |-> 200,
                     title |-> TitleOf(run.blog_result),
                     content_html |-> ContentHtmlOf(run.blog_result),
                     tags |-> TagsOf(run.blog_result),
                     html_url |-> run.html_url,
                     debug |-> DictGet(run.blog_result, "debug", <<>>)],
                !.pc = "done"]

BlockingConfirmed(run, project) ==
    IF project = <<>> THEN HTTPException(run, 404, <<MSG_NO_PROJECT>>)
    ELSE [run EXCEPT !.project_name = DictGet(project, "name", ""),
                     !.ftp_path = DictGet(project, "ftp_path", <<>>),
                     !.pc = "photos"]

\* the request arrives and the handler runs
BlockingConfirmProject(r) ==
    /\ LoopFree
    /\ runs[r].pc = "idle"
    /\ \E data \in BlockingData, raises \in BOOLEAN :
        SetRun(r, IF raises
                  THEN HTTPException(
                           Did([IdleRun EXCEPT !.mode = "block", !.request = data],
                               "get_project", <<PROJECT_ID>>),
                           500, <<DB_ERROR>>)
                  ELSE BlockingConfirmed(
                           Did([IdleRun EXCEPT !.mode = "block", !.request = data],
                               "get_project", <<PROJECT_ID>>),
                           get_project(store, PROJECT_ID)))
    /\ UNCHANGED <<store, server, api_key, writes, fnVars>>

BlockingPrepared(run, photos) ==
    IF photos = <<>> THEN HTTPException(run, 400, <<MSG_NO_PHOTOS>>)
    ELSE IF PhotoUrls(photos) = <<>> THEN HTTPException(run, 400, <<MSG_NO_URLS>>)
    ELSE [run EXCEPT !.image_urls = PhotoUrls(photos), !.pc = "mark"]

BlockingPreparePhotos(r) ==
    /\ runs[r].mode = "block"
    /\ runs[r].pc = "photos"
    /\ \E raises \in BOOLEAN :
        SetRun(r, IF raises
                  THEN HTTPException(Did(runs[r], "get_photos", <<PROJECT_ID>>),
                                     500, <<DB_ERROR>>)
                  ELSE BlockingPrepared(
                           Did(runs[r], "get_photos", <<PROJECT_ID>>),
                           get_photos(store.photos, PROJECT_ID)))
    /\ UNCHANGED <<store, server, api_key, writes, fnVars>>

BlockingMarkAnalyzing(r) ==
    /\ runs[r].mode = "block"
    /\ runs[r].pc = "mark"
    /\ \E raises \in BOOLEAN :
        IF raises
        THEN /\ SetRun(r, HTTPException(Did(runs[r], "update_project_status",
                                            <<PROJECT_ID, "analyzing">>),
                                        500, <<DB_ERROR>>))
             /\ UNCHANGED store
        ELSE /\ store' = update_project_status(store, PROJECT_ID, "analyzing")
             /\ SetRun(r, [Did(runs[r], "update_project_status",
                               <<PROJECT_ID, "analyzing">>)
                           EXCEPT !.pc = "analyze"])
    /\ UNCHANGED <<server, api_key, writes, fnVars>>

BlockingAnalyzed(run, analysis_result) ==
    IF HasError(analysis_result)
    THEN HTTPException([run EXCEPT !.analysis_result = analysis_result], 500,
                       <<MSG_ANALYSIS_FAILED, analysis_result.error>>)
    ELSE [run EXCEPT !.analysis_result = analysis_result, !.pc = "generate"]

BlockingAnalyze(r) ==
    /\ runs[r].mode = "block"
    /\ runs[r].pc = "analyze"
    /\ \E w \in AnalyzeWorlds :
        SetRun(r, BlockingAnalyzed(
                      Did(runs[r], "analyze_images_with_gemini",
                          runs[r].image_urls),
                      AnalysisOf(runs[r], api_key, w)))
    /\ UNCHANGED <<store, server, api_key, writes, fnVars>>

BlockingGenerated(run, blog_result) ==
    IF HasError(blog_result)
    THEN HTTPException([run EXCEPT !.blog_result = blog_result], 500,
                       <<MSG_GENERATION_FAILED, blog_result.error>>)
    ELSE [run EXCEPT !.blog_result = blog_result, !.pc = "persist"]

BlockingGenerate(r) ==
    /\ runs[r].mode = "block"
    /\ runs[r].pc = "generate"
    /\ \E w \in GenerateWorlds :
        SetRun(r, BlockingGenerated(
                      Did(runs[r], "generate_blog_with_gemini",
                          runs[r].image_urls),
                      BlogOf(runs[r],
                             BlockingKeywordList(runs[r].request,
                                                 runs[r].analysis_result),
                             api_key, w)))
    /\ UNCHANGED <<store, server, api_key, writes, fnVars>>

\* the blocking run after the persist step
BlockingPersisted(run, db_raises, up) ==
    IF db_raises = "save_content"
    THEN HTTPException(Did(run, "save_content", <<PROJECT_ID>>), 500,
                       <<DB_ERROR>>)
    ELSE IF db_raises = "update_project_status"
    THEN HTTPException(Did(SavedAndUploaded(run, up), "update_project_status",
                           <<PROJECT_ID, "generated">>),
                       500, <<DB_ERROR>>)
    ELSE GenerateResponse(Did(SavedAndUploaded(run, up),
                              "update_project_status",
                              <<PROJECT_ID, "generated">>))

BlockingPersist(r) ==
    /\ runs[r].mode = "block"
    /\ runs[r].pc = "persist"
    /\ \E db_raises \in DbRaises, fate \in FtpFates :
        /\ (runs[r].ftp_path = <<>> \/ db_raises = "save_content") => fate = "ok"
        /\ store' = PersistStore(store, runs[r].blog_result, db_raises)
        /\ writes' = PersistWrites(writes, r, runs[r].blog_result, db_raises)
        /\ server' = PersistServer(runs[r], server, db_raises, fate)
        /\ SetRun(r, BlockingPersisted(runs[r], db_raises,
                                       UploadPage(runs[r], server, fate)))
    /\ UNCHANGED <<api_key, fnVars>>

Next ==
    \E r \in Runs :
        \/ StreamStart(r)
        \/ StreamConfirmProject(r)
        \/ StreamPreparePhotos(r)
        \/ StreamMarkAnalyzing(r)
        \/ StreamAnalyze(r)
        \/ StreamAnnounceWrite(r)
        \/ StreamGenerate(r)
        \/ StreamAnnounceSave(r)
        \/ StreamPersist(r)
        \/ StreamComplete(r)
        \/ Cancel(r)
        \/ BlockingConfirmProject(r)
        \/ BlockingPreparePhotos(r)
        \/ BlockingMarkAnalyzing(r)
        \/ BlockingAnalyze(r)
        \/ BlockingGenerate(r)
        \/ BlockingPersist(r)

Spec == Init /\ [][Next]_vars

\* ------------------------------------------------------------------------
\* Properties of the service functions (under SpecFn)
\* ------------------------------------------------------------------------
\* the number of image elements of an HTML text
ImgCount(h) == Cardinality({i \in 1..Len(h) : h[i] = LT_IMG})

\* the value the response of the call decodes to
DecodedDoc ==
    JsonLoads(StripFence(fn.world.response.text), fn.world.response.doc)

\* the call to generate_blog_with_gemini has returned the decoded object
GenerateDecoded ==
    /\ fnDone
    /\ fn.name = "generate"
    /\ fn.world.api_key
    /\ fn.world.response.exc = ""
    /\ JsonDecodes(StripFence(fn.world.response.text))
    /\ DecodedDoc.type = "object"

\* C1: for every non-empty list of image URLs and every response that decodes
\* to a JSON object, the returned content_html has exactly as many image
\* elements as there are input URLs, and the image sources are the input
\* URLs, each once, in input order.
C1_ImagesAreExactlyTheInputsInOrder ==
    GenerateDecoded =>
        /\ "content_html" \in DOMAIN fnOut.ret
        /\ ImgCount(fnOut.ret.content_html) = Len(fn.image_urls)
        /\ FindAllImgSrc(fnOut.ret.content_html)
               = [i \in 1..Len(fn.image_urls) |-> <<fn.image_urls[i]>>]

\* C2: the repair pass is idempotent: applied to its own output, with the
\* same image URLs, it inserts nothing more.
C2_RepairPassIdempotent ==
    \A i \in 2..Len(passes) : passes[i] = passes[i - 1]

\* every download of the call raises or returns a status other than 200
AllDownloadsFail ==
    \A i \in 1..Len(fn.image_urls) :
        \/ fn.world.http[fn.image_urls[i]].exc # ""
        \/ fn.world.http[fn.image_urls[i]].status_code # 200

\* the positions of the calls of operation op in a sequence of calls
CallsOf(net, op) == {i \in 1..Len(net) : net[i].op = op}

\* C6: when no image downloads successfully (the credential being present),
\* analyze_images_with_gemini returns the image-download failure and the
\* generative model is not called.
C6_NoImageNoModelCall ==
    (fnDone /\ fn.name = "analyze" /\ fn.world.api_key /\ AllDownloadsFail) =>
        /\ fnOut.ret = [error |-> ERR_NO_IMAGES]
        /\ CallsOf(fnOut.net, "generate_content") = {}

\* two downloads were tried, one raised and one returned 404, and the call
\* returned without calling the model
C6_Witness ==
    /\ fnDone
    /\ fn.name = "analyze"
    /\ fn.world.api_key
    /\ fn.image_urls = <<"u1", "u2">>
    /\ fn.world.http["u1"] = RespTimeout
    /\ fn.world.http["u2"] = Resp404
    /\ Len(fnOut.net) = 2
    /\ fnOut.ret = [error |-> ERR_NO_IMAGES]

\* C7: without the API credential, analyze_images_with_gemini and
\* generate_blog_with_gemini return the configuration error and make no
\* external call at all: no download, no persona or reference-source read, no
\* reference fetch, no model call.
C7_NoKeyNoNetworkCall ==
    (fnDone /\ fn.name \in {"analyze", "generate"} /\ ~fn.world.api_key) =>
        /\ fnOut.ret = [error |-> ERR_NO_KEY]
        /\ fnOut.net = <<>>

\* generate_blog_with_gemini returned the configuration error for a user
\* scope that has a persona and reference sources to read
C7_Witness ==
    /\ fnDone
    /\ fn.name = "generate"
    /\ ~fn.world.api_key
    /\ fn.user_id # ""
    /\ fn.world.refs # <<>>
    /\ fn.world.persona.type = "str"
    /\ fnOut.ret = [error |-> ERR_NO_KEY]

\* the model call raised, or the response text does not decode
GenerateFailed ==
    /\ fnDone
    /\ fn.name = "generate"
    /\ fn.world.api_key
    /\ \/ fn.world.response.exc # ""
       \/ ~JsonDecodes(StripFence(fn.world.response.text))

\* C9: when the model call or the JSON decoding fails in
\* generate_blog_with_gemini (credential present), the function returns an
\* error result that carries the debug trace: persona info, reference info,
\* the prompt sections included, the prompt length and the model identifier.
C9_FailureCarriesDebugTrace ==
    GenerateFailed =>
        /\ DOMAIN fnOut.ret = {"error", "debug"}
        /\ fnOut.ret.error \in {"model error", "JSONDecodeError"}
        /\ fnOut.ret.debug.model = MODEL_NAME
        /\ fnOut.ret.debug.full_prompt_length = PromptLength(fnOut.prompt)
        /\ fnOut.ret.debug.prompt_sections.has_persona
               = (fnOut.prompt.persona_section # <<>>)
        /\ fnOut.ret.debug.prompt_sections.has_reference
               = (fnOut.prompt.reference_section # <<>>)
        /\ fn.user_id # "" =>
               /\ fnOut.ret.debug.persona
                      = get_persona_with_debug(fn.world.persona)
               /\ fnOut.ret.debug.reference_urls.urls_found
                      = Len(fn.world.refs)

\* the response text did not decode after a persona and a fetched reference
\* had gone into the prompt
C9_Witness ==
    /\ GenerateFailed
    /\ fn.world.response.exc = ""
    /\ fnOut.ret.error = "JSONDecodeError"
    /\ fnOut.ret.debug.prompt_sections.has_persona
    /\ fnOut.ret.debug.prompt_sections.has_reference
    /\ fnOut.ret.debug.full_prompt_length > 7

\* the keywords a list holds: its items trimmed, the blank ones left out
RECURSIVE NonBlank(_)
NonBlank(items) ==
    IF items = <<>> THEN <<>>
    ELSE (IF Strip(Head(items)) # <<>> THEN <<Strip(Head(items))>> ELSE <<>>)
         \o NonBlank(Tail(items))

\* the keywords the caller supplies: the items of the comma-separated string
\* in the streaming mode, the list of the request body in the blocking mode
CallerKeywords(call) ==
    IF call.mode = "stream" THEN NonBlank(SplitComma(call.request))
    ELSE IF call.request = <<>> THEN <<>>
    ELSE NonBlank(DictGet(call.request, "keywords", <<>>))

AnalyzerKeywords(call) == DictGet(call.analysis, "main_keywords", <<>>)

\* C13: the main keyword of the prompt is the first caller-supplied keyword
\* whenever the caller supplies keywords, otherwise the first keyword the
\* analyzer suggested, otherwise the project name; in the blocking mode and
\* in the streaming mode, where the keywords arrive as a comma-separated
\* string.
C13_MainKeywordPriority ==
    (fnDone /\ fn.name = "keywords") =>
        fnOut.prompt.main_keyword
            = IF CallerKeywords(fn) # <<>> THEN CallerKeywords(fn)[1]
              ELSE IF AnalyzerKeywords(fn) # <<>> THEN AnalyzerKeywords(fn)[1]
              ELSE fn.project_name

\* the HTTP requests among the calls, in order
HttpGets(net) == SelectSeq(net, LAMBDA c : c.op = "httpx.get")

\* C15: of a list of more than 5 active reference sources,
\* get_reference_content_with_debug fetches the first 5 in source order and
\* no other: no call makes more than 5 fetches, and a source at position 6
\* or later is neither fetched nor listed in the per-source details.
C15_OnlyFirstFiveFetched ==
    (fnDone /\ fn.name = "references") =>
        /\ Len(HttpGets(fnOut.net)) <= 5
        /\ Len(fn.refs) > 5 =>
               /\ Len(HttpGets(fnOut.net)) = 5
               /\ Len(fnOut.ret.url_details) = 5
               /\ \A i \in 1..5 :
                      /\ HttpGets(fnOut.net)[i].arg = fn.refs[i].url
                      /\ fnOut.ret.url_details[i].url = fn.refs[i].url
               /\ \A j \in 6..Len(fn.refs) :
                      /\ \A i \in 1..Len(HttpGets(fnOut.net)) :
                             HttpGets(fnOut.net)[i].arg # fn.refs[j].url
                      /\ \A i \in 1..Len(fnOut.ret.url_details) :
                             fnOut.ret.url_details[i].url # fn.refs[j].url

\* six sources are stored, the sixth would have been fetched successfully,
\* and the call returned five details
C15_Witness ==
    /\ fnDone
    /\ fn.name = "references"
    /\ Len(fn.refs) = 6
    /\ fn.refs[6].resp = RespOk(<<TAG, WORD>>)
    /\ fnOut.ret.urls_found = 6
    /\ Len(fnOut.ret.url_details) = 5

\* the labels of the blocks of a combined text, in order
RECURSIVE BlockLabels(_)
BlockLabels(text) ==
    IF Len(text) < 2 THEN <<>>
    ELSE (IF Head(text) = REF_LABEL THEN <<text[2]>> ELSE <<>>)
         \o BlockLabels(Tail(text))

\* the details that report success, in order
Succeeded(details) == SelectSeq(details, LAMBDA d : d.success)

\* C16: whatever the fetches do, the per-source details have exactly one
\* entry per examined source, in source order, for a fetch that succeeded
\* as for one that failed; the combined text has a block for a source if and
\* only if that source's fetch reported success, in source order; and when
\* no source succeeds the combined text is empty.
C16_DetailsPerSourceBlocksPerSuccess ==
    (fnDone /\ fn.name = "references") =>
        /\ Len(fnOut.ret.url_details)
               = (IF Len(fn.refs) < 5 THEN Len(fn.refs) ELSE 5)
        /\ \A i \in 1..Len(fnOut.ret.url_details) :
               /\ fnOut.ret.url_details[i].url = fn.refs[i].url
               /\ fnOut.ret.url_details[i].title = fn.refs[i].title
               /\ fnOut.ret.url_details[i].success
                      = (fn.refs[i].resp.exc = ""
                         /\ fn.refs[i].resp.status_code = 200)
        /\ BlockLabels(fnOut.ret.combined_content)
               = [i \in 1..Len(Succeeded(fnOut.ret.url_details)) |->
                     IF Succeeded(fnOut.ret.url_details)[i].title # ""
                     THEN Succeeded(fnOut.ret.url_details)[i].title
                     ELSE Succeeded(fnOut.ret.url_details)[i].url]
        /\ fnOut.ret.urls_fetched = Len(Succeeded(fnOut.ret.url_details))
        /\ Succeeded(fnOut.ret.url_details) = <<>> =>
               fnOut.ret.combined_content = <<>>

\* three sources: a page without text, a fetch that raised and a page with
\* text; the combined text has the blocks of the first and the third
C16_Witness ==
    /\ fnDone
    /\ fn.name = "references"
    /\ Len(fn.refs) = 3
    /\ fn.refs[1].resp = RespOk(<<TAG>>)
    /\ fn.refs[2].resp = RespTimeout
    /\ fn.refs[3].resp = RespOk(<<TAG, WORD>>)
    /\ Len(fnOut.ret.url_details) = 3
    /\ BlockLabels(fnOut.ret.combined_content) = <<"s1", "s3">>

\* the fetch got an answer, of a status other than 200
AnsweredNot200 ==
    /\ fnDone
    /\ fn.name = "fetch"
    /\ fn.resp.exc = ""
    /\ fn.resp.status_code # 200

\* C17: fetch_url_content on a URL answering with a status other than 200
\* returns success false, the error "HTTP " followed by the status code
\* ("HTTP 404" for a 404) and empty content, whatever the body.
C17_Non200IsHttpError ==
    AnsweredNot200 =>
        /\ fnOut.ret.success = FALSE
        /\ fnOut.ret.error = "HTTP " \o ToString(fn.resp.status_code)
        /\ fn.resp.status_code = 404 => fnOut.ret.error = "HTTP 404"
        /\ fnOut.ret.content = <<>>

\* a 404 answer with text in its body was reported as HTTP 404
C17_Witness ==
    /\ AnsweredNot200
    /\ fn.resp = Resp(404, <<WORD, WORD, WORD>>)
    /\ fnOut.ret.error = "HTTP 404"

\* page bodies with no text outside scripts, styles, comments and tags
TextlessBodies ==
    {<<>>, <<SP, NL>>, <<TAG>>, <<SCRIPT_OPEN, WORD, SCRIPT_CLOSE>>,
     <<CMT_OPEN, WORD, CMT_CLOSE, STYLE_OPEN, STYLE_CLOSE>>}

\* C18: fetch_url_content on a URL answering 200 with an empty body, or a
\* body that is empty after sanitizing, returns success true with empty
\* content and empty error; success depends on the transport alone: it is
\* true exactly when the request returned with status 200.
C18_EmptyPageIsSuccess ==
    (fnDone /\ fn.name = "fetch") =>
        /\ fnOut.ret.success
               = (fn.resp.exc = "" /\ fn.resp.status_code = 200)
        /\ (fn.resp.exc = "" /\ fn.resp.status_code = 200
            /\ fn.resp.body \in TextlessBodies) =>
               /\ fnOut.ret.success = TRUE
               /\ fnOut.ret.content = <<>>
               /\ fnOut.ret.error = ""

\* a page that holds a script and nothing else was fetched with success
C18_Witness ==
    /\ fnDone
    /\ fn.name = "fetch"
    /\ fn.resp = Resp(200, <<SCRIPT_OPEN, WORD, SCRIPT_CLOSE>>)
    /\ fnOut.ret.success = TRUE
    /\ fnOut.ret.content = <<>>

\* C19: fetch_url_content never raises and never retries: every call
\* returns its result dict after exactly one HTTP request, and when the
\* request raises the result is success false, the message of the exception
\* as error and empty content.
C19_OneRequestNeverRaises ==
    (fnDone /\ fn.name = "fetch") =>
        /\ DOMAIN fnOut.ret = {"url", "content", "success", "error"}
        /\ fnOut.net = <<Call("httpx.get", fn.url)>>
        /\ fn.resp.exc # "" =>
               /\ fnOut.ret.success = FALSE
               /\ fnOut.ret.error = fn.resp.exc
               /\ fnOut.ret.content = <<>>

\* the connection was refused and the call returned that message
C19_Witness ==
    /\ fnDone
    /\ fn.name = "fetch"
    /\ fn.resp = RespRefused
    /\ fnOut.ret.error = "connection refused"
    /\ Len(fnOut.net) = 1

\* the stored value is missing, not a string, empty or whitespace only
NoUsablePersona(persona) ==
    \/ persona.type # "str"
    \/ \A i \in 1..Len(persona.text) : persona.text[i] \in {SP, NL}

\* C20: get_persona_with_debug reports has_persona false, empty text and
\* length 0 whenever the stored persona value is missing, not a string,
\* empty or whitespace only.
C20_BlankPersonaIsNoPersona ==
    (fnDone /\ fn.name = "persona" /\ NoUsablePersona(fn.persona)) =>
        fnOut.ret = [has_persona |-> FALSE, persona_text |-> <<>>,
                     persona_length |-> 0]

\* a stored persona of a space and a newline was reported as no persona
C20_Witness ==
    /\ fnDone
    /\ fn.name = "persona"
    /\ fn.persona = [type |-> "str", text |-> <<SP, NL>>]
    /\ fnOut.ret.has_persona = FALSE

\* the call with another response text, and what its function returns
WithText(call, text) == [call EXCEPT !.world.response.text = text]
ReturnOf(call) ==
    IF call.name = "analyze"
    THEN analyze_images_with_gemini(call.image_urls, call.project_name,
                                    call.world).ret
    ELSE generate_blog_with_gemini(call.analysis, call.keywords,
             call.project_name, call.image_urls, call.user_id, call.world).ret

\* C21: for every JSON text the model answers with, the analyzer and the
\* generator return the same result whether the text comes alone, in a fence
\* labeled json, or in a fence without a label.
C21_SameResultInEveryForm ==
    (fnDone /\ fn.name \in {"analyze", "generate"}
        /\ fn.world.response.exc = "")
    => \A json_text \in JsonTexts :
          fn.world.response.text \in Forms(json_text)
          => \A text \in Forms(json_text) :
                ReturnOf(WithText(fn, text)) = fnOut.ret

\* a persona is present: a user scope is given and its stored value is a
\* string with something other than whitespace in it
PersonaPresent(call) ==
    call.user_id # "" /\ ~NoUsablePersona(call.world.persona)

\* the aggregated text of the reference sources of the call's user scope
AggregatedReferences(call) ==
    IF call.user_id = "" THEN <<>>
    ELSE get_reference_content_with_debug(call.world.refs).combined_content

\* the image list of a prompt for the URLs given
ImageListOf(image_urls) ==
    [i \in 1..Len(image_urls) |->
        [pos |-> i, of |-> Len(image_urls), url |-> image_urls[i]]]

\* C22: the prompt of generate_blog_with_gemini has the persona section
\* exactly when a persona is present and the reference section exactly when
\* the aggregated reference text is not empty; the debug flags has_persona
\* and has_reference say whether each section is there; with no persona and
\* no references the prompt has neither section and lists exactly the input
\* image URLs at positions 1..n.
C22_PromptSectionsFollowInputs ==
    (fnDone /\ fn.name = "generate" /\ fn.world.api_key)
    => /\ (fnOut.prompt.persona_section # <<>>) <=> PersonaPresent(fn)
       /\ (fnOut.prompt.reference_section # <<>>)
             <=> (AggregatedReferences(fn) # <<>>)
       /\ fnOut.ret.debug.prompt_sections.has_persona
             = (fnOut.prompt.persona_section # <<>>)
       /\ fnOut.ret.debug.prompt_sections.has_reference
             = (fnOut.prompt.reference_section # <<>>)
       /\ (~PersonaPresent(fn) /\ AggregatedReferences(fn) = <<>>)
             => /\ fnOut.prompt.persona_section = <<>>
                /\ fnOut.prompt.reference_section = <<>>
                /\ fnOut.prompt.image_list = ImageListOf(fn.image_urls)

\* a prompt with neither section for two images: no usable persona and a
\* source list none of whose pages could be fetched
C22_Witness ==
    /\ fnDone
    /\ fn.name = "generate"
    /\ fn.world.api_key
    /\ fn.image_urls = <<"u1", "u2">>
    /\ ~PersonaPresent(fn)
    /\ fn.world.refs # <<>>
    /\ AggregatedReferences(fn) = <<>>
    /\ fnOut.prompt.persona_section = <<>>
    /\ fnOut.prompt.reference_section = <<>>
    /\ Len(fnOut.prompt.image_list) = 2

\* the HTML the model wrote and the input URLs the repair pass finds missing
DecodedHtml == DictGet(DecodedDoc.value, "content_html", <<>>)
MissingFromDecoded ==
    MissingUrls(fn.image_urls, Range(FindAllImgSrc(DecodedHtml)))

\* h with the text new put in before position k
InsertedBefore(h, k, new) ==
    SubSeq(h, 1, k - 1) \o new \o SubSeq(h, k, Len(h))

\* C24: when some input URLs are missing from the HTML, the repair pass puts
\* the batch of blocks in exactly once: right before the closing tag of the
\* article when there is one, at the end otherwise; the batch has one block
\* per missing URL, in input order, each with an empty caption.
C24_BatchInsertedOnce ==
    (GenerateDecoded /\ MissingFromDecoded # <<>>)
    => IF ART_CLOSE \in Range(DecodedHtml)
       THEN \E k \in 1..Len(DecodedHtml) :
               /\ DecodedHtml[k] = ART_CLOSE
               /\ fnOut.ret.content_html
                    = InsertedBefore(DecodedHtml, k,
                          <<NL>> \o MissingHtml(MissingFromDecoded) \o <<NL>>)
       ELSE fnOut.ret.content_html
               = DecodedHtml \o <<NL>> \o MissingHtml(MissingFromDecoded)

\* the input URLs of the call whose download answered 200, in input order
Downloaded(call) ==
    SelectSeq(call.image_urls,
              LAMBDA u : call.world.http[u].exc = ""
                         /\ call.world.http[u].status_code = 200)

\* the model's response of the call decodes to a JSON object
AnalysisDecodes(call) ==
    /\ call.world.response.exc = ""
    /\ JsonDecodes(StripFence(call.world.response.text))
    /\ JsonLoads(StripFence(call.world.response.text),
                 call.world.response.doc).type = "object"

\* C25: analyze_images_with_gemini tries every input URL and skips a download
\* that fails; when at least one image downloads, the model is called exactly
\* once, after the downloads, with the prompt and exactly the downloaded
\* images in input order; and on success images_processed is the number of
\* images downloaded.
C25_ModelGetsExactlyTheDownloadedImages ==
    (fnDone /\ fn.name = "analyze" /\ fn.world.api_key)
    => /\ SelectSeq(fnOut.net, LAMBDA c : c.op = "httpx.get")
            = [i \in 1..Len(fn.image_urls) |->
                  Call("httpx.get", <<fn.image_urls[i]>>)]
       /\ Downloaded(fn) # <<>>
          => /\ CallsOf(fnOut.net, "generate_content") = {Len(fnOut.net)}
             /\ fnOut.net[Len(fnOut.net)].arg = <<"prompt">> \o Downloaded(fn)
             /\ AnalysisDecodes(fn)
                => /\ "debug" \in DOMAIN fnOut.ret
                   /\ fnOut.ret.debug.images_processed = Len(Downloaded(fn))

\* the first download timed out, the second succeeded, and the model was
\* called with the second image alone
C25_Witness ==
    /\ fnDone
    /\ fn.name = "analyze"
    /\ fn.world.api_key
    /\ fn.image_urls = <<"u1", "u2">>
    /\ fn.world.http["u1"] = RespTimeout
    /\ fn.world.http["u2"] = RespOk(<<WORD>>)
    /\ fnOut.net[Len(fnOut.net)] = Call("generate_content", <<"prompt", "u2">>)
    /\ "debug" \in DOMAIN fnOut.ret
    /\ fnOut.ret.debug.images_processed = 1

\* a result of get_reference_content_with_debug is at hand: the one returned
\* to a direct call, or the one the generator keeps in its debug trace
HasReferenceResult ==
    /\ fnDone
    /\ \/ fn.name = "references"
       \/ fn.name = "generate" /\ fn.world.api_key /\ fn.user_id # ""
ReferenceResult ==
    IF fn.name = "references" THEN fnOut.ret
    ELSE fnOut.ret.debug.reference_urls
ActiveSources == IF fn.name = "references" THEN fn.refs ELSE fn.world.refs

\* C28: in every result of get_reference_content_with_debug, urls_found is
\* the number of all active sources, beyond 5 too; there are min(urls_found,
\* 5) per-source entries; and urls_fetched is the number of entries whose
\* success is true.
C28_CountersConsistent ==
    HasReferenceResult =>
        /\ ReferenceResult.urls_found = Len(ActiveSources)
        /\ Len(ReferenceResult.url_details)
              = (IF ReferenceResult.urls_found < 5
                 THEN ReferenceResult.urls_found ELSE 5)
        /\ ReferenceResult.urls_fetched
              = Cardinality({i \in 1..Len(ReferenceResult.url_details) :
                                ReferenceResult.url_details[i].success})

\* six active sources, the second of which timed out: six found, five
\* entries, four fetched
C28_Witness ==
    /\ fnDone
    /\ fn.name = "references"
    /\ Len(fn.refs) = 6
    /\ fn.refs[2].resp = RespTimeout
    /\ \A i \in {1, 3, 4, 5, 6} : fn.refs[i].resp = RespOk(<<TAG, WORD>>)
    /\ fnOut.ret.urls_found = 6
    /\ Len(fnOut.ret.url_details) = 5
    /\ fnOut.ret.urls_fetched = 4

\* position i of the HTML holds the source of an image element, in double or
\* in single quotes
IsImageSource(h, i) ==
    \/ /\ i > 4 /\ i < Len(h)
       /\ SubSeq(h, i - 4, i - 1) = <<LT_IMG, SP, SRC_EQ, DQ>>
       /\ h[i + 1] = DQ
    \/ /\ i > 3 /\ i < Len(h)
       /\ SubSeq(h, i - 3, i - 1) = <<LT_IMG, SP, SRC_SQ>>
       /\ h[i + 1] = SQ

\* the image sources of an HTML text
ImageSources(h) == {h[i] : i \in {j \in 1..Len(h) : IsImageSource(h, j)}}

\* C29: when the HTML of the decoded response already has every input image
\* URL as the source of an image, the repair pass changes nothing: the
\* returned content_html, title and tags are those of the decoded response.
C29_NothingMissingNothingChanged ==
    (GenerateDecoded
        /\ \A i \in 1..Len(fn.image_urls) :
              fn.image_urls[i] \in ImageSources(DecodedHtml))
    => /\ "content_html" \in DOMAIN fnOut.ret
       /\ fnOut.ret.content_html = DecodedHtml
       /\ DictGet(fnOut.ret, "title", "") = DictGet(DecodedDoc.value, "title", "")
       /\ DictGet(fnOut.ret, "tags", <<>>) = DictGet(DecodedDoc.value, "tags", <<>>)

\* ------------------------------------------------------------------------
\* Properties of the two handlers (under Spec)
\* ------------------------------------------------------------------------
\* the event names of a run and the positions of its terminal events
EventNames(run) == [i \in 1..Len(run.events) |-> EventOf(run.events[i])]
Terminals(run) ==
    {i \in 1..Len(run.events) : EventOf(run.events[i]) \in {"complete", "error"}}
ProgressAt(run) ==
    {i \in 1..Len(run.events) : EventOf(run.events[i]) = "progress"}
StepAt(run, i) == DataOf(run.events[i]).step

\* the places where the generator can be suspended, each the guard of one
\* of its steps
StreamLabels ==
    {"confirm", "photos", "mark", "analyze", "announce write", "generate",
     "announce save", "persist", "complete"}

\* C3: a streaming run that is not cancelled emits exactly one terminal event
\* (complete or error), and it is the last event of the stream: a terminal
\* event is never followed by anything, a run that has ended has emitted one,
\* and a run that has not ended stands before one of the generator's steps.
C3_ExactlyOneTerminalEventLast ==
    \A r \in Runs :
        runs[r].mode = "stream" =>
            /\ Cardinality(Terminals(runs[r])) <= 1
            /\ Terminals(runs[r]) # {} =>
                   /\ Terminals(runs[r]) = {Len(runs[r].events)}
                   /\ runs[r].pc = "done"
            /\ runs[r].pc = "done" => Cardinality(Terminals(runs[r])) = 1
            /\ Suspended(r) => runs[r].pc \in StreamLabels

\* one streaming run has ended with complete and the other with error
C3_Witness ==
    /\ runs["r1"].mode = "stream"
    /\ runs["r1"].pc = "done"
    /\ EventOf(runs["r1"].events[Len(runs["r1"].events)]) = "complete"
    /\ runs["r2"].mode = "stream"
    /\ runs["r2"].pc = "done"
    /\ EventOf(runs["r2"].events[Len(runs["r2"].events)]) = "error"

\* the project exists and has no photo row
ProjectWithoutPhotos ==
    /\ PROJECT_ID \in DOMAIN store.projects
    /\ get_photos(store.photos, PROJECT_ID) = <<>>

\* C4 as stated: on a project that exists but has no uploaded images, the
\* stream is exactly one progress event (step 1) followed by one error
\* event.
C4_OneProgressThenError ==
    \A r \in Runs :
        (ProjectWithoutPhotos /\ runs[r].mode = "stream" /\ runs[r].pc = "done") =>
            /\ EventNames(runs[r]) = <<"progress", "error">>
            /\ StepAt(runs[r], 1) = 1

\* C4: on a project that exists but has no uploaded images, the stream of a
\* run that is not cancelled is the progress event of step 1, the progress
\* event of step 2 (emitted before the photos are read) and one error event;
\* the step-2 event is absent only when the read of the project raised.
\* There is no complete event and no progress event of a later step.
C4_ProgressOneAndTwoThenError ==
    \A r \in Runs :
        (ProjectWithoutPhotos /\ runs[r].mode = "stream" /\ runs[r].pc = "done") =>
            \/ /\ EventNames(runs[r]) = <<"progress", "progress", "error">>
               /\ StepAt(runs[r], 1) = 1
               /\ StepAt(runs[r], 2) = 2
               /\ DataOf(runs[r].events[3]).message
                      \in {<<MSG_NO_PHOTOS>>, <<DB_ERROR>>}
            \/ /\ EventNames(runs[r]) = <<"progress", "error">>
               /\ StepAt(runs[r], 1) = 1
               /\ DataOf(runs[r].events[2]).message = <<DB_ERROR>>

\* the run found no photo and said so
C4_Witness ==
    /\ ProjectWithoutPhotos
    /\ runs["r1"].mode = "stream"
    /\ runs["r1"].pc = "done"
    /\ Len(runs["r1"].events) = 3
    /\ DataOf(runs["r1"].events[3]).message = <<MSG_NO_PHOTOS>>

\* C5: the progress events of a stream carry step numbers that never
\* decrease, each in 1..5 with total 5, and a complete event comes only after
\* progress events of all five steps.
C5_ProgressInOrder ==
    \A r \in Runs :
        runs[r].mode = "stream" =>
            /\ \A i \in ProgressAt(runs[r]) :
                   /\ StepAt(runs[r], i) \in 1..5
                   /\ DataOf(runs[r].events[i]).total = 5
                   /\ \A j \in ProgressAt(runs[r]) :
                          i <= j => StepAt(runs[r], i) <= StepAt(runs[r], j)
            /\ \A k \in 1..Len(runs[r].events) :
                   EventOf(runs[r].events[k]) = "complete" =>
                       {StepAt(runs[r], i) : i \in {j \in ProgressAt(runs[r]) : j < k}}
                           = 1..5

\* a stream that went through every step and ended with complete
C5_Witness ==
    /\ runs["r1"].mode = "stream"
    /\ runs["r1"].pc = "done"
    /\ Len(runs["r1"].events) = 10
    /\ EventOf(runs["r1"].events[10]) = "complete"

\* the operations of a run after a fatal failure would be these
AfterFailureOps == {"save_content", "Cafe24FTP.upload_bytes"}
MarkedGenerated(run) ==
    \E i \in 1..Len(run.ops) :
        run.ops[i] = Call("update_project_status", <<PROJECT_ID, "generated">>)

\* the only request so far is r
OnlyRun(r) == \A q \in Runs \ {r} : runs[q].pc = "idle"

\* C8: in both modes, when the analysis returns an error the content
\* generator is not invoked, and when the analysis or the generation returns
\* an error the run saves no content, uploads nothing and does not set the
\* status to generated.
C8_StopsAtFirstFailure ==
    \A r \in Runs :
        /\ "error" \in DOMAIN runs[r].analysis_result =>
               CallsOf(runs[r].ops, "generate_blog_with_gemini") = {}
        /\ ("error" \in DOMAIN runs[r].analysis_result
            \/ "error" \in DOMAIN runs[r].blog_result) =>
               /\ \A op \in AfterFailureOps : CallsOf(runs[r].ops, op) = {}
               /\ ~MarkedGenerated(runs[r])
               /\ runs[r].pc = "done"
               /\ OnlyRun(r) =>
                      /\ writes = <<>>
                      /\ server.files = <<>>
                      /\ \A i \in 1..Len(store.contents) :
                             store.contents[i].title \in {"other", "old"}
                      /\ store.projects[PROJECT_ID].status # "generated"

\* a blocking run stopped at the analysis and a streaming run at the
\* generation
C8_Witness ==
    /\ runs["r1"].mode = "block"
    /\ "error" \in DOMAIN runs["r1"].analysis_result
    /\ runs["r1"].response.status_code = 500
    /\ runs["r2"].mode = "stream"
    /\ "error" \in DOMAIN runs["r2"].blog_result
    /\ runs["r2"].pc = "done"

\* the rows of blog_contents of the project
ProjectContents ==
    SelectSeq(store.contents, LAMBDA row : row.project_id = PROJECT_ID)

\* every request has been made and has ended
AllFinished == \A r \in Runs : runs[r].pc \in {"done", "cancelled"}

\* C10: when two generation requests for the same project have run
\* concurrently and finished, the project has exactly one content row, and it
\* holds the title, HTML and tags of the save that was executed last.
C10_LaterWriteWins ==
    (AllFinished /\ writes # <<>>) =>
        /\ Len(ProjectContents) = 1
        /\ ProjectContents[1].title = writes[Len(writes)].title
        /\ ProjectContents[1].content_html = writes[Len(writes)].content_html
        /\ ProjectContents[1].tags = writes[Len(writes)].tags

\* both requests saved, with different titles, and r1's save was the last
C10_Witness ==
    /\ AllFinished
    /\ Len(writes) = 2
    /\ writes[1].run = "r2"
    /\ writes[2].run = "r1"
    /\ writes[1].title # writes[2].title
    /\ Len(ProjectContents) = 1
    /\ ProjectContents[1].title = writes[2].title

\* the status update at the end of the run raised: the run ended with the
\* error of the record store
StatusUpdateRaised(run) ==
    /\ run.pc = "done"
    /\ IF run.mode = "stream"
       THEN /\ EventOf(run.events[Len(run.events)]) = "error"
            /\ DataOf(run.events[Len(run.events)]).message = <<DB_ERROR>>
       ELSE /\ run.response.status_code = 500
            /\ run.response.detail = <<DB_ERROR>>

\* the result a run returns: the data of its complete event, or its response
ResultOf(run) ==
    IF run.mode = "stream" THEN DataOf(run.events[Len(run.events)])
    ELSE run.response

\* the run has returned its result
Returned(run) ==
    /\ run.pc = "done"
    /\ IF run.mode = "stream"
       THEN EventOf(run.events[Len(run.events)]) = "complete"
       ELSE run.response.status_code = 200

\* C11: in both modes a failure to upload the generated HTML is not fatal:
\* the content has been saved to the record store, the published URL stays
\* empty, and unless the status update that follows raises on its own the
\* project status becomes generated and the run goes on to return its
\* result (response or complete event) with the title, HTML and tags that
\* were generated and with an empty published URL.
C11_UploadFailureNotFatal ==
    \A r \in Runs :
        runs[r].upload = "raised" =>
            /\ CallsOf(runs[r].ops, "save_content") # {}
            /\ \E i \in 1..Len(writes) :
                   writes[i] = [run |-> r,
                                title |-> runs[r].blog_result.title,
                                content_html |-> runs[r].blog_result.content_html,
                                tags |-> runs[r].blog_result.tags]
            /\ runs[r].html_url = NONE
            /\ runs[r].pc \in {"complete", "done", "cancelled"}
            /\ runs[r].pc = "done" =>
                   \/ StatusUpdateRaised(runs[r])
                   \/ /\ Returned(runs[r])
                      /\ ResultOf(runs[r]).title = runs[r].blog_result.title
                      /\ ResultOf(runs[r]).content_html
                             = runs[r].blog_result.content_html
                      /\ ResultOf(runs[r]).tags = runs[r].blog_result.tags
                      /\ ResultOf(runs[r]).html_url = NONE
            /\ (OnlyRun(r) /\ ~StatusUpdateRaised(runs[r])) =>
                   /\ store.projects[PROJECT_ID].status = "generated"
                   /\ Len(ProjectContents) = 1
                   /\ ProjectContents[1].title = runs[r].blog_result.title
                   /\ ProjectContents[1].content_html
                          = runs[r].blog_result.content_html

\* the upload raised in a streaming run and in a blocking run, and both
\* returned their result
C11_Witness ==
    /\ runs["r1"].mode = "stream"
    /\ runs["r1"].upload = "raised"
    /\ Returned(runs["r1"])
    /\ runs["r2"].mode = "block"
    /\ runs["r2"].upload = "raised"
    /\ Returned(runs["r2"])
    /\ server.files = <<>>

\* C12: every connection opened through the scoped acquisition of Cafe24FTP
\* is released when the scope is left, also when connecting, logging in or
\* uploading raises: between the steps of the handlers, where no scope is
\* open, the file server has no open connection.
C12_NoConnectionLeftOpen == server.open = 0

\* the project is missing, or it has no photo with a URL
RequestInvalid ==
    \/ PROJECT_ID \notin DOMAIN store.projects
    \/ \A i \in 1..Len(store.photos) :
           store.photos[i].project_id = PROJECT_ID =>
               store.photos[i].ftp_url = ""

\* the run ended with an error
EndedWithError(run) ==
    IF run.mode = "stream"
    THEN EventOf(run.events[Len(run.events)]) = "error"
    ELSE run.response.status_code \in {400, 404, 500}

\* C14: in both modes, when the project does not exist, or has no photos, or
\* has no photo with a non-empty URL, the request ends with an error, the
\* image analyzer and the content generator are never invoked and the
\* project status is not changed.
C14_InvalidRequestStopsBeforeAnalysis ==
    RequestInvalid =>
        /\ \A p \in DOMAIN store.projects : store.projects[p].status = "draft"
        /\ \A r \in Runs :
               /\ CallsOf(runs[r].ops, "analyze_images_with_gemini") = {}
               /\ CallsOf(runs[r].ops, "generate_blog_with_gemini") = {}
               /\ CallsOf(runs[r].ops, "update_project_status") = {}
               /\ runs[r].pc \in {"idle", "confirm", "photos", "done", "cancelled"}
               /\ runs[r].pc = "done" => EndedWithError(runs[r])

\* the only photo of the project has no URL: the streaming run ended with
\* that error and the blocking run with status 400
C14_Witness ==
    /\ PROJECT_ID \in DOMAIN store.projects
    /\ get_photos(store.photos, PROJECT_ID) # <<>>
    /\ RequestInvalid
    /\ runs["r1"].mode = "stream"
    /\ runs["r1"].pc = "done"
    /\ DataOf(runs["r1"].events[Len(runs["r1"].events)]).message = <<MSG_NO_URLS>>
    /\ runs["r2"].mode = "block"
    /\ runs["r2"].pc = "done"
    /\ runs["r2"].response.status_code = 400


\* the step of run r from a progress notification to cancelled
Cancelling(r) == runs[r].pc # "cancelled" /\ runs'[r].pc = "cancelled"

\* C23: when the client drops the streaming connection at a progress
\* notification the run is cancelled and nothing is rolled back: the run takes
\* no later step, and what was written to the record store and the file
\* server stays as it is.
C23_CancelStopsTheRunAndKeepsWrites ==
    [][\A r \in Runs :
          /\ runs[r].pc = "cancelled" => runs'[r] = runs[r]
          /\ Cancelling(r)
             => /\ Suspended(r)
                /\ runs'[r] = [runs[r] EXCEPT !.pc = "cancelled"]
                /\ store' = store
                /\ server' = server
                /\ writes' = writes]_vars

\* a run cancelled at the notification that follows the status write: the
\* project stays 'analyzing' and the analyzer was never called
C23_Witness ==
    /\ runs["r1"].pc = "cancelled"
    /\ OnlyRun("r1")
    /\ CallsOf(runs["r1"].ops, "update_project_status") # {}
    /\ CallsOf(runs["r1"].ops, "analyze_images_with_gemini") = {}
    /\ store.projects[PROJECT_ID].status = "analyzing"

\* the message a finished run failed with (<<>> when it returned its result)
FailureOf(run) ==
    IF Returned(run) THEN <<>>
    ELSE IF run.mode = "stream" THEN DataOf(run.events[Len(run.events)]).message
    ELSE run.response.detail

\* run r has had its content saved
SavedBy(r) == \E i \in 1..Len(writes) : writes[i].run = r

\* what the collaborators answered to a finished run: the project and the
\* photos read, the analyzer's and the generator's results, how the upload
\* ended, whether the save was executed and the exception that ended the run
HeardBy(r) ==
    [project_name |-> runs[r].project_name,
     ftp_path |-> runs[r].ftp_path,
     image_urls |-> runs[r].image_urls,
     analysis_result |-> runs[r].analysis_result,
     blog_result |-> runs[r].blog_result,
     upload |-> runs[r].upload,
     saved |-> SavedBy(r),
     failure |-> FailureOf(runs[r])]

\* the five fields a run delivers
Delivered(run) ==
    [title |-> ResultOf(run).title,
     content_html |-> ResultOf(run).content_html,
     tags |-> ResultOf(run).tags,
     html_url |-> ResultOf(run).html_url,
     debug |-> ResultOf(run).debug]

StatusCalls(run, status) ==
    {i \in 1..Len(run.ops) :
        run.ops[i] = Call("update_project_status", <<PROJECT_ID, status>>)}

\* the project was found and it has photos with a URL
ValidationPassed(run) == run.image_urls # <<>>

\* the run's write of 'analyzing' has returned: a call follows it
AnalyzingCommitted(run) ==
    \E i \in StatusCalls(run, "analyzing") : i < Len(run.ops)

\* the order of the status changes within run r: 'analyzing' after the
\* project and the photos were read and found valid and before the analyzer,
\* which is not called without it; 'generated' after the save was executed;
\* 'analyzing' never after 'generated'; and, r being the only run, the stored
\* status is one that r has set
StatusOrder(r) ==
    /\ \A i \in StatusCalls(runs[r], "analyzing") :
          /\ ValidationPassed(runs[r])
          /\ \E j \in CallsOf(runs[r].ops, "get_project") : j < i
          /\ \E j \in CallsOf(runs[r].ops, "get_photos") : j < i
          /\ \A j \in CallsOf(runs[r].ops, "analyze_images_with_gemini") : i < j
          /\ \A j \in StatusCalls(runs[r], "generated") : i < j
    /\ \A j \in CallsOf(runs[r].ops, "analyze_images_with_gemini") :
          \E i \in StatusCalls(runs[r], "analyzing") : i < j
    /\ \A i \in StatusCalls(runs[r], "generated") :
          /\ \E j \in CallsOf(runs[r].ops, "save_content") : j < i
          /\ SavedBy(r)
    /\ (OnlyRun(r) /\ PROJECT_ID \in DOMAIN store.projects)
       => /\ store.projects[PROJECT_ID].status = "analyzing"
             => StatusCalls(runs[r], "analyzing") # {}
          /\ store.projects[PROJECT_ID].status = "generated"
             => StatusCalls(runs[r], "generated") # {} /\ SavedBy(r)

\* the run has ended without its result
Failed(run) == run.pc = "done" /\ ~Returned(run)

AnalyzerDecoded(run) == "debug" \in DOMAIN run.analysis_result

\* the generator of the run decoded its model response: its result has keys
\* other than the two of the except clause of gemini.py:418-419
GeneratorDecoded(run) == DOMAIN run.blog_result \ {"error", "debug"} # {}

\* the run ended reporting the failure of the step whose message is given
ReportedAs(run, message) ==
    /\ Failed(run)
    /\ Head(FailureOf(run)) = message

\* C30: a step whose model response decoded is not treated as failed,
\* whatever keys the decoded JSON object has: after the analyzer decoded its
\* response the run goes on to the generator and reports no analysis
\* failure, and after the generator decoded its response the run goes on to
\* save the content and reports no generation failure.
C30_DecodedResponseIsNotAFailure ==
    \A r \in Runs :
        runs[r].pc = "done"
        => /\ AnalyzerDecoded(runs[r])
              => /\ ~ReportedAs(runs[r], MSG_ANALYSIS_FAILED)
                 /\ CallsOf(runs[r].ops, "generate_blog_with_gemini") # {}
           /\ GeneratorDecoded(runs[r])
              => /\ ~ReportedAs(runs[r], MSG_GENERATION_FAILED)
                 /\ CallsOf(runs[r].ops, "save_content") # {}
====
